---- MODULE Spec2Model ----
(***************************************************************************)
(* Call control of golte: the modem call manager (call.Call), the          *)
(* ModemManager handlers registered in ModemManager.Initialize, the prompt *)
(* playback they drive and the Discord /call and /hangup commands.         *)
(*                                                                         *)
(* Threads: the indication delivery task of the AT transport (one          *)
(* indication at a time, the handler runs on it), the Discord command      *)
(* listener, and the modem itself as the environment.                      *)
(*                                                                         *)
(* Around it, each with a specification of its own: the +CLCC parser, the  *)
(* listening operations of call.Call, the two ffmpeg audio legs, the       *)
(* PCMStreamer and the live audio path into the Playback mixer, the        *)
(* predecoded prompt cache, the machine and its owner runServer,           *)
(* Config.Validate, the operations of Playback, the polling worker of the  *)
(* older call manager, and ffmpeg.Player.                                  *)
(***************************************************************************)
EXTENDS Integers, Sequences, FiniteSets, TLC

VARIABLES
    started,    \* ModemManager.Initialize has run
    call,       \* call.Call: incomingHandler / dtmfHandler set, isListening
    inds,       \* indication prefixes registered with the AT transport
    state,      \* ModemManager.state: nil, or a ModemState{password}
    cache,      \* names held by the predecoded prompt cache
    queue,      \* Playback.queue: prompts enqueued and not yet played
    line,       \* the modem's call status
    pending,    \* indications sent by the modem, not yet delivered
    at,         \* the AT command in flight (one at a time)
    iPc,        \* position of the indication delivery task
    iNum,       \* phone number the incoming-call handler was called with
    cur,        \* the indication delivered last
    effects,    \* what the handling of that indication did, in order
    delivered,  \* digits handed to the DTMF handler since the last reset
    crashed,    \* the process died of a nil dereference
    dPc,        \* position of the Discord command listener
    dCmd,       \* the slash command it handles
    dArg,       \* its "number" option
    dErr,       \* the error callFunc / hangupFunc returned
    dLog,       \* what the handling of that command did, in order
    clcc,       \* a +CLCC status line and what parseCallStatus made of it
    ctl,        \* the thread that calls the listening operations of call.Call
    recv,       \* ALSAReceiver: the playback leg and its ffmpeg process
    prov,       \* AudioProvider: the capture leg and its ffmpeg process
    strm,       \* PCMStreamer: the live-audio streamer and its packet channel
    live,       \* the voice channel's audio on its way to the Playback mixer
    assets,     \* the predecoded cache's initialization and the prompt streamers
    mach,       \* Machine and runServer: the modem connection and who waits on it
    cfg,        \* a Config and what Config.Validate said of it
    wrk,        \* the polling call manager: its worker goroutines and flags
    ply         \* ffmpeg.Player: its transcoding processes and its done channel

\* the audio legs
legVars == <<recv, prov, strm>>

\* the services around the call control
svcVars == <<live, assets, mach, cfg, wrk, ply>>

\* the components the call control does not touch
compVars == <<clcc, ctl, legVars, svcVars>>

vars == <<started, call, inds, state, cache, queue, line, pending, at, iPc,
          iNum, cur, effects, delivered, crashed, dPc, dCmd, dArg, dErr, dLog,
          compVars>>

modemVars == <<started, call, inds>>
indVars == <<iPc, iNum, cur, effects>>
discordVars == <<dPc, dCmd, dArg, dErr, dLog>>

\* the call control: the modem manager, the delivery task, the listener
controlVars == <<started, call, inds, state, cache, queue, line, pending, at,
                 iPc, iNum, cur, effects, delivered, crashed, dPc, dCmd, dArg,
                 dErr, dLog>>

----------------------------------------------------------------------------
(* Bounds of the model *)

\* keys the caller may press off the target password between two resets
MaxWrong == 1
\* digits the caller presses between two resets when the commands run too
MaxDigits == 1
\* indications waiting for the delivery task
MaxPending == 1
\* prompts waiting in the playback queue when the modem sends an indication
MaxQueue == 1

----------------------------------------------------------------------------
(* Program constants *)

TargetPassword == <<"5", "2", "2", "2", "6", "6", "3", "6">>

WelcomePrompt == "audio/bonjour_veuillez_entrez_votre_mot_de_passe.mp3"

SuccessPrompt == "audio/mot_de_passe_correct.mp3"

DTMFChars ==
    {"0", "1", "2", "3", "4", "5", "6", "7", "8", "9",
     "A", "B", "C", "D", "#", "*"}

----------------------------------------------------------------------------
(* Inputs *)

\* keys of the caller's keypad that the model presses
Keys == {"5", "2", "6", "3", "#"}

\* what follows "+RXDTMF:" in an indication line, as characters
RxPayloads == {<<" ", k>> : k \in Keys} \cup {<<" ", "E">>}

Quote == "\""

CallerNumber == "+15551234567"

\* what follows "+CLIP:" in an indication line: quotes, blanks and the runs
\* of other characters between them
ClipPayloads ==
    { <<" ", Quote, CallerNumber, Quote, ",145">>,
      <<" ", Quote, Quote, ",128">> }

\* the "number" option of /call
Numbers == {"", "12ab", CallerNumber}

AllPrompts ==
    {WelcomePrompt, SuccessPrompt} \cup {"audio/" \o k \o ".mp3" : k \in Keys \ {"#"}}

\* the caches initialization can leave: every asset decoded, or some assets
\* whose decoding failed
CacheChoices ==
    {AllPrompts, AllPrompts \ {WelcomePrompt, "audio/3.mp3"}}

NoCmd == [cmd |-> "", arg |-> "", from |-> "", line |-> ""]

NoIndication == [kind |-> "", data |-> <<>>]

----------------------------------------------------------------------------
(* Pure functions *)

RECURSIVE SkipSpaces(_)
SkipSpaces(s) ==
    IF s # <<>> /\ Head(s) = " " THEN SkipSpaces(Tail(s)) ELSE s

\* regexp \+CLIP:\s*"([^"]+)"
extractPhoneNumber(clipData) ==
    LET t == SkipSpaces(clipData)
    IN IF Len(t) >= 3 /\ t[1] = Quote /\ t[2] # Quote /\ t[3] = Quote
       THEN t[2]
       ELSE ""

extractAnyCharacter(dtmfData) ==
    LET t == SkipSpaces(dtmfData)
    IN IF t # <<>> THEN Head(t) ELSE ""

\* regexp \+RXDTMF:\s*([0-9A-D#*])
extractDTMFDigit(dtmfData) ==
    LET t == SkipSpaces(dtmfData)
    IN IF t # <<>> /\ Head(t) \in DTMFChars THEN Head(t) ELSE ""

NewState == [nil |-> FALSE, password |-> <<>>]

NilState == [nil |-> TRUE, password |-> <<>>]

IsResetDigitStar(digit) == digit = "*"

\* if digit == "#"
IsResetDigit(digit) == digit = "#"

PasswordAppendFront(password, digit) == <<digit>> \o password

PasswordAppendTwice(password, digit) == password \o <<digit, digit>>

\* m.state.password += digit
PasswordAppend(password, digit) == password \o <<digit>>

PasswordCorrectPrefix(password) ==
    /\ Len(password) >= Len(TargetPassword)
    /\ SubSeq(password, 1, Len(TargetPassword)) = TargetPassword

\* m.state.password == "52226636"
PasswordCorrect(password) == password = TargetPassword

DigitPrompt(digit) == "audio/" \o digit \o ".mp3"

\* The DTMF handler on session st: the session it leaves, what it did in
\* order, and whether it dereferenced a nil session.
DTMFHandler(st, digit) ==
    IF IsResetDigit(digit)
    THEN [state |-> NewState, log |-> <<<<"reset", "">>>>, panic |-> FALSE]
    ELSE IF st.nil
    THEN [state |-> st, log |-> <<<<"play", DigitPrompt(digit)>>>>, panic |-> TRUE]
    ELSE LET password == PasswordAppend(st.password, digit)
         IN [state |-> [st EXCEPT !.password = password],
             log |-> <<<<"play", DigitPrompt(digit)>>, <<"append", digit>>>>
                     \o (IF PasswordCorrect(password)
                         THEN <<<<"play", SuccessPrompt>>>>
                         ELSE <<>>),
             panic |-> FALSE]

\* an AddPredecoded that queues whatever it is asked for
AddPredecodedAlways(q, filePath) ==
    Append(q, filePath)

\* Playback.AddPredecoded: the queue after the call
AddPredecoded(q, filePath) ==
    IF filePath \in cache THEN Append(q, filePath) ELSE q

RECURSIVE AddAllPredecoded(_, _)
AddAllPredecoded(q, log) ==
    IF log = <<>> THEN q
    ELSE AddAllPredecoded(
             IF Head(log)[1] = "play" THEN AddPredecoded(q, Head(log)[2]) ELSE q,
             Tail(log))

Plays(log) == SelectSeq(log, LAMBDA e : e[1] = "play")

\* keys of buf that are not the target password's key at their place
Mismatches(buf) ==
    Cardinality({i \in 1..Len(buf) :
                    i > Len(TargetPassword) \/ buf[i] # TargetPassword[i]})

\* the buffer once the waiting indications have been handled
RECURSIVE Projected(_, _)
Projected(buf, pend) ==
    IF pend = <<>> THEN buf
    ELSE LET h == Head(pend)
             d == extractDTMFDigit(h.data)
         IN Projected(
                IF h.kind = "+CLIP"
                THEN (IF extractPhoneNumber(h.data) # "" THEN <<>> ELSE buf)
                ELSE IF d = "" THEN buf
                ELSE IF d = "#" THEN <<>>
                ELSE Append(buf, d),
                Tail(pend))

----------------------------------------------------------------------------
(* Initial state: the objects as constructed, before Initialize *)

InitControl ==
    /\ started = FALSE
    /\ call = [incomingHandler |-> FALSE, dtmfHandler |-> FALSE,
               isListening |-> FALSE]
    /\ inds = {}
    /\ state = NilState
    /\ queue = <<>>
    /\ line = "idle"
    /\ pending = <<>>
    /\ at = NoCmd
    /\ iPc = "idle"
    /\ iNum = ""
    /\ cur = NoIndication
    /\ effects = <<>>
    /\ delivered = <<>>
    /\ crashed = FALSE
    /\ dPc = "idle"
    /\ dCmd = ""
    /\ dArg = ""
    /\ dErr = ""
    /\ dLog = <<>>

\* no status line yet, and CallStatus{}
\* no listening operation under way
NoOperation == [op |-> "", pc |-> "idle", err |-> ""]

\* NewALSAReceiver: the process started, its stdin pipe open, the monitor
\* goroutine in cmd.Wait
NewALSAReceiver ==
    [stdin |-> "open", pipe |-> "open", cancelled |-> FALSE, done |-> "open",
     cmd |-> "running", monitor |-> "waiting", users |-> {},
     err |-> "", wrote |-> FALSE, panicked |-> FALSE]

\* ffmpg.New: the process started, its stdout pipe open; ConnectAndPlay asks
\* for one channel
NewAudioProvider ==
    [pipe |-> "open", done |-> FALSE, cmd |-> "running", channels |-> 1,
     unread |-> 0, samples |-> 0, err |-> "", waited |-> FALSE]

\* NewPCMStreamer on the channel of NewOpusPCMReceiver; no Stream call yet
NewPCMStreamer ==
    [closed |-> FALSE, closedCh |-> "open", packets |-> 0, pcmLeft |-> 0,
     pc |-> "idle", want |-> 0, n |-> 0, waiting |-> FALSE,
     result |-> [n |-> 0, ok |-> TRUE, closed |-> FALSE], err |-> "",
     ch |-> "open", panic |-> ""]

\* the replacement of streamer s that Reopen would make if it kept s.pcm
ReopenKeepingBuffer(s) ==
    [closed |-> FALSE, closedCh |-> "open", pcm |-> s.pcm, skipped |-> s.pcm]

\* PCMStreamer.Reopen: a streamer on the same channel with no s.pcm and a
\* closedCh of its own (skipped: the frames s had not played yet)
Reopen(s) ==
    [closed |-> FALSE, closedCh |-> "open", pcm |-> <<>>, skipped |-> s.pcm]

\* NewOpusPCMReceiver and NewPlayback: the channel empty, d.streamer the
\* first streamer, which no AddStream has given to the mixer
NewLivePath ==
    [ch |-> <<>>, pushed |-> 0, events |-> 0,
     streamers |-> <<[closed |-> FALSE, closedCh |-> "open", pcm |-> <<>>,
                      skipped |-> <<>>]>>,
     mixer |-> {}, registered |-> <<>>,
     pull |-> [s |-> 0, want |-> 0, got |-> <<>>],
     out |-> <<>>, owed |-> {}, dropped |-> {}, late |-> FALSE,
     prompts |-> TRUE, paused |-> FALSE, closed |-> FALSE, err |-> ""]

\* the cache before GetPredecodedCache is first called; no prompt asked for
NoAssets ==
    [loaded |-> FALSE, cursors |-> <<>>, asked |-> "", err |-> "",
     queued |-> FALSE]

\* machine.New, Initialize and Start have run: the modem is connected,
\* errorChan is empty, runServer is at its select, nobody is in Wait
NewMachine ==
    [modem |-> "open", errorChan |-> 0, signal |-> FALSE, ctx |-> "live",
     server |-> "select", seen |-> "", wait |-> "idle", waitErr |-> "",
     monitor |-> "running"]

\* Config{}, not validated yet
NoConfig ==
    [config |-> [Token |-> "", WebhookURL |-> "", Device |-> "", Baud |-> 0,
                 Timeout |-> 0, Level |-> "", Format |-> ""],
     validated |-> FALSE, err |-> ""]

\* the polling call manager before call.New: no callback, no worker
NoCall ==
    [made |-> FALSE, callback |-> FALSE, isWorkerRunning |-> FALSE,
     workerCtx |-> 0, cancelled |-> {}, workers |-> <<>>, err |-> "",
     polls |-> 0, tick |-> [w |-> 0, ok |-> FALSE, fired |-> {}]]

\* ffmpeg.NewPlayer: no command, a context, the done channel made once
NewPlayer ==
    [cmd |-> 0, stdin |-> FALSE, cancelled |-> FALSE, done |-> "open",
     procs |-> <<>>, wait |-> "idle", err |-> "", panic |-> ""]

NoStatusLine ==
    [data |-> <<>>, parsed |-> FALSE,
     call |-> [err |-> "", Index |-> 0, Direction |-> "", Status |-> "",
               Mode |-> "", Number |-> <<>>, Type |-> <<>>]]

\* every prompt was decoded
Init ==
    /\ InitControl
    /\ cache = AllPrompts
    /\ clcc = NoStatusLine
    /\ ctl = NoOperation
    /\ recv = NewALSAReceiver
    /\ prov = NewAudioProvider
    /\ strm = NewPCMStreamer
    /\ live = NewLivePath
    /\ assets = [NoAssets EXCEPT !.loaded = TRUE]
    /\ mach = NewMachine
    /\ cfg = NoConfig
    /\ wrk = NoCall
    /\ ply = NewPlayer

\* some prompts may have failed to decode
InitDtmf ==
    /\ InitControl
    /\ cache \in CacheChoices
    /\ clcc = NoStatusLine
    /\ ctl = NoOperation
    /\ recv = NewALSAReceiver
    /\ prov = NewAudioProvider
    /\ strm = NewPCMStreamer
    /\ live = NewLivePath
    /\ assets = [NoAssets EXCEPT !.loaded = TRUE]
    /\ mach = NewMachine
    /\ cfg = NoConfig
    /\ wrk = NoCall
    /\ ply = NewPlayer

Running == started /\ ~crashed

----------------------------------------------------------------------------
(* ModemManager.Initialize: StartListening, SetDTMFHandler,                *)
(* EnableDTMFDetection store the two handlers and register the two         *)
(* indications; the errors of the three calls are dropped. StartListening  *)
(* sets isListening only when the modem has accepted "+CLIP=1".            *)

Initialize(clipOk) ==
    /\ ~started
    /\ started' = TRUE
    /\ call' = [incomingHandler |-> TRUE, dtmfHandler |-> TRUE,
                isListening |-> clipOk]
    /\ inds' = {"+CLIP", "+RXDTMF"}
    /\ UNCHANGED <<compVars, state, cache, queue, line, pending, at, indVars,
                   delivered, crashed, discordVars>>

----------------------------------------------------------------------------
(* The modem and the far end *)

Emit(kind, data) ==
    /\ Len(pending) < MaxPending
    /\ Len(queue) < MaxQueue
    /\ pending' = IF kind \in inds
                  THEN Append(pending, [kind |-> kind, data |-> data])
                  ELSE pending

\* a ring of an incoming call, with its caller-ID line
ModemRing(data) ==
    /\ Running
    /\ line \in {"idle", "ringing"}
    /\ line' = "ringing"
    /\ Emit("+CLIP", data)
    /\ UNCHANGED <<compVars, modemVars, state, cache, queue, at, indVars, delivered,
                   crashed, discordVars>>

CurrentBuffer == Projected(state.password, pending)

KeyNearTarget(data) ==
    LET d == extractDTMFDigit(data)
    IN d \in {"", "#"} \/ Mismatches(Append(CurrentBuffer, d)) <= MaxWrong

KeyWithinDigits(data) ==
    LET d == extractDTMFDigit(data)
    IN d \in {"", "#"} \/ Len(CurrentBuffer) < MaxDigits

\* the far end presses a key during the call
ModemDTMF(data, allowed) ==
    /\ Running
    /\ line = "active"
    /\ allowed
    /\ Emit("+RXDTMF", data)
    /\ UNCHANGED <<compVars, modemVars, state, cache, queue, line, at, indVars,
                   delivered, crashed, discordVars>>

RemoteHangup ==
    /\ Running
    /\ line # "idle"
    /\ line' = "idle"
    /\ UNCHANGED <<compVars, modemVars, state, cache, queue, pending, at, indVars,
                   delivered, crashed, discordVars>>

RemoteAnswer ==
    /\ Running
    /\ line = "dialing"
    /\ line' = "active"
    /\ UNCHANGED <<compVars, modemVars, state, cache, queue, pending, at, indVars,
                   delivered, crashed, discordVars>>

\* the line after the modem has accepted a command
LineAfter(cmd) ==
    CASE cmd = "A" -> "active"
      [] cmd = "D" -> IF line = "idle" THEN "dialing" ELSE line
      [] OTHER -> "idle"

\* The modem answers the command in flight: OK or ERROR. It cannot answer a
\* call that is not ringing.
ModemRespond(ok) ==
    /\ Running
    /\ at # NoCmd
    /\ ok => (at.cmd = "A" => line = "ringing")
    /\ line' = IF ok THEN LineAfter(at.cmd) ELSE line
    /\ at' = NoCmd
    /\ IF at.from = "ind"
       THEN /\ iPc' = "reset"
            /\ effects' = Append(effects, <<"response", IF ok THEN "OK" ELSE "ERROR">>)
            /\ UNCHANGED <<iNum, cur, discordVars>>
       ELSE /\ dPc' = "reply"
            /\ dErr' = IF ok THEN "" ELSE "ERROR"
            /\ dLog' = Append(dLog, <<"response", IF ok THEN "OK" ELSE "ERROR">>)
            /\ UNCHANGED <<dCmd, dArg, indVars>>
    /\ UNCHANGED <<compVars, modemVars, state, cache, queue, pending, delivered, crashed>>

\* the queue has played its first prompt to the end
QueuePlay ==
    /\ Running
    /\ queue # <<>>
    /\ queue' = Tail(queue)
    /\ UNCHANGED <<compVars, modemVars, state, cache, line, pending, at, indVars,
                   delivered, crashed, discordVars>>

----------------------------------------------------------------------------
(* The indication delivery task *)

\* The +CLIP indication registered by StartListening: the handler is called
\* when a number can be extracted and a handler is set.
ClipIndication ==
    /\ Running
    /\ iPc = "idle"
    /\ pending # <<>>
    /\ Head(pending).kind = "+CLIP"
    /\ pending' = Tail(pending)
    /\ cur' = Head(pending)
    /\ effects' = <<>>
    /\ LET phoneNumber == extractPhoneNumber(Head(pending).data)
       IN IF phoneNumber # "" /\ call.incomingHandler
          THEN iPc' = "notify" /\ iNum' = phoneNumber
          ELSE iPc' = "idle" /\ iNum' = iNum
    /\ UNCHANGED <<compVars, modemVars, state, cache, queue, line, at, delivered,
                   crashed, discordVars>>

\* m.callNotifyCallback(call, message): Machine.sendCallNotification sends
\* the embed to Discord and returns when it is sent
IncomingNotify ==
    /\ Running
    /\ iPc = "notify"
    /\ effects' = Append(effects, <<"notify", iNum>>)
    /\ iPc' = "pickup"
    /\ UNCHANGED <<compVars, modemVars, state, cache, queue, line, pending, at, iNum,
                   cur, delivered, crashed, discordVars>>

PickUpIfRinging(from) ==
    IF line = "ringing"
    THEN /\ at = NoCmd
         /\ at' = [cmd |-> "A", arg |-> "", from |-> from, line |-> line]
         /\ effects' = Append(effects, <<"command", "A">>)
         /\ iPc' = "awaitA"
    ELSE /\ at' = at
         /\ effects' = Append(effects, <<"error", "NoRingingCall">>)
         /\ iPc' = "reset"

\* Call.PickUp: the command "A" is sent, and its answer awaited
PickUp(from) ==
    /\ at = NoCmd
    /\ at' = [cmd |-> "A", arg |-> "", from |-> from, line |-> line]
    /\ effects' = Append(effects, <<"command", "A">>)
    /\ iPc' = "awaitA"

\* m.call.PickUp()
IncomingPickUp ==
    /\ Running
    /\ iPc = "pickup"
    /\ PickUp("ind")
    /\ UNCHANGED <<compVars, modemVars, state, cache, queue, line, pending, iNum, cur,
                   delivered, crashed, discordVars>>

IncomingResetMissing ==
    /\ Running
    /\ iPc = "reset"
    /\ iPc' = "sleep"
    /\ UNCHANGED <<compVars, modemVars, state, cache, queue, line, pending, at, iNum,
                   cur, effects, delivered, crashed, discordVars>>

\* m.state = NewState()
IncomingReset ==
    /\ Running
    /\ iPc = "reset"
    /\ state' = NewState
    /\ delivered' = <<>>
    /\ effects' = Append(effects, <<"reset", "">>)
    /\ iPc' = "sleep"
    /\ UNCHANGED <<compVars, modemVars, cache, queue, line, pending, at, iNum, cur,
                   crashed, discordVars>>

\* time.Sleep(1 * time.Second) is over
IncomingSleep ==
    /\ Running
    /\ iPc = "sleep"
    /\ iPc' = "prompt"
    /\ UNCHANGED <<compVars, modemVars, state, cache, queue, line, pending, at, iNum,
                   cur, effects, delivered, crashed, discordVars>>

\* m.playback.AddPredecoded(welcome), and the handler returns
IncomingPrompt ==
    /\ Running
    /\ iPc = "prompt"
    /\ queue' = AddPredecoded(queue, WelcomePrompt)
    /\ effects' = Append(effects, <<"play", WelcomePrompt>>)
    /\ iPc' = "idle"
    /\ UNCHANGED <<compVars, modemVars, state, cache, line, pending, at, iNum, cur,
                   delivered, crashed, discordVars>>

\* The +RXDTMF indication registered by EnableDTMFDetection, and the handler
\* it calls.
DTMFIndication ==
    /\ Running
    /\ iPc = "idle"
    /\ pending # <<>>
    /\ Head(pending).kind = "+RXDTMF"
    /\ pending' = Tail(pending)
    /\ cur' = Head(pending)
    /\ LET digit == extractDTMFDigit(Head(pending).data)
           r == DTMFHandler(state, digit)
       IN IF call.dtmfHandler /\ digit # ""
          THEN /\ state' = r.state
               /\ effects' = r.log
               /\ queue' = AddAllPredecoded(queue, r.log)
               /\ crashed' = r.panic
               /\ delivered' = IF digit = "#" THEN <<>> ELSE Append(delivered, digit)
          ELSE /\ effects' = <<>>
               /\ UNCHANGED <<state, queue, crashed, delivered>>
    /\ UNCHANGED <<compVars, modemVars, cache, line, at, iPc, iNum, discordVars>>

----------------------------------------------------------------------------
(* The Discord command listener: /call and /hangup *)

SendCommand(cmd, arg) ==
    /\ at = NoCmd
    /\ at' = [cmd |-> cmd, arg |-> arg, from |-> "discord", line |-> line]
    /\ dLog' = <<<<"command", cmd \o arg>>>>
    /\ dErr' = ""
    /\ dPc' = "await"

Fail(reason) ==
    /\ at' = at
    /\ dLog' = <<>>
    /\ dErr' = reason
    /\ dPc' = "reply"

StartCallIfIdle(number) ==
    IF line # "idle" THEN Fail("CallAlreadyActive") ELSE SendCommand("D", number)

StartCallIfValid(number) ==
    IF number # CallerNumber THEN Fail("InvalidNumber") ELSE SendCommand("D", number)

\* Call.StartCall, through Machine.StartCall and ModemManager.StartCall:
\* the command "D<number>;" is sent, and its answer awaited
StartCall(number) == SendCommand("D", number)

\* Call.HangUp, through Machine.HangUpCall and ModemManager.HangUpCall
HangUp == SendCommand("+CHUP", "")

\* case "call": err := d.callFunc(phoneNumber)
CommandCall(number) ==
    /\ Running
    /\ dPc = "idle"
    /\ dCmd' = "call"
    /\ dArg' = number
    /\ StartCall(number)
    /\ UNCHANGED <<compVars, modemVars, state, cache, queue, line, pending, indVars,
                   delivered, crashed>>

\* case "hangup": err := d.hangupFunc()
CommandHangup ==
    /\ Running
    /\ dPc = "idle"
    /\ dCmd' = "hangup"
    /\ dArg' = ""
    /\ HangUp
    /\ UNCHANGED <<compVars, modemVars, state, cache, queue, line, pending, indVars,
                   delivered, crashed>>

ReplyText(cmd, number, err) ==
    CASE cmd = "call" /\ err # "" -> "Call has **not** been started: " \o err
      [] cmd = "call" /\ err = "" -> "Calling " \o number \o "..."
      [] cmd = "hangup" /\ err # "" -> "Call has **not** been hung up: " \o err
      [] OTHER -> "Call hung up!"

AfterReplyNoReturn(err) == "notify"

\* if err != nil { ...; return }
AfterReply(err) == IF err # "" THEN "idle" ELSE "notify"

\* event.CreateMessage(...) with the failure or the success text
CommandReply ==
    /\ Running
    /\ dPc = "reply"
    /\ dLog' = Append(dLog, <<"reply", ReplyText(dCmd, dArg, dErr)>>)
    /\ dPc' = AfterReply(dErr)
    /\ UNCHANGED <<compVars, modemVars, state, cache, queue, line, pending, at, indVars,
                   delivered, crashed, dCmd, dArg, dErr>>

NotifyText(cmd, number) ==
    IF cmd = "call" THEN "Calling " \o number ELSE "Call ended"

\* d.notifyFunc(NotificationTypeCall, ...)
CommandNotify ==
    /\ Running
    /\ dPc = "notify"
    /\ dLog' = Append(dLog, <<"notify", NotifyText(dCmd, dArg)>>)
    /\ dPc' = "idle"
    /\ UNCHANGED <<compVars, modemVars, state, cache, queue, line, pending, at, indVars,
                   delivered, crashed, dCmd, dArg, dErr>>

----------------------------------------------------------------------------
(* Specifications *)

\* the modem, the delivery task and the playback queue: the caller may type
\* the whole password
NextDtmf ==
    \/ \E clipOk \in BOOLEAN : Initialize(clipOk)
    \/ \E data \in ClipPayloads : ModemRing(data)
    \/ \E data \in RxPayloads : ModemDTMF(data, KeyNearTarget(data))
    \/ RemoteHangup
    \/ \E ok \in BOOLEAN : ModemRespond(ok)
    \/ QueuePlay
    \/ ClipIndication
    \/ IncomingNotify
    \/ IncomingPickUp
    \/ IncomingReset
    \/ IncomingSleep
    \/ IncomingPrompt
    \/ DTMFIndication

SpecDtmf == InitDtmf /\ [][NextDtmf]_vars

\* the whole system, the Discord commands included
Next ==
    \/ \E clipOk \in BOOLEAN : Initialize(clipOk)
    \/ \E data \in ClipPayloads : ModemRing(data)
    \/ \E data \in RxPayloads : ModemDTMF(data, KeyWithinDigits(data))
    \/ RemoteHangup
    \/ RemoteAnswer
    \/ \E ok \in BOOLEAN : ModemRespond(ok)
    \/ QueuePlay
    \/ ClipIndication
    \/ IncomingNotify
    \/ IncomingPickUp
    \/ IncomingReset
    \/ IncomingSleep
    \/ IncomingPrompt
    \/ DTMFIndication
    \/ \E number \in Numbers : CommandCall(number)
    \/ CommandHangup
    \/ CommandReply
    \/ CommandNotify

Spec == Init /\ [][Next]_vars

----------------------------------------------------------------------------
(* The DTMF handler *)

HandledDigit ==
    IF cur.kind = "+RXDTMF" /\ call.dtmfHandler
    THEN extractDTMFDigit(cur.data)
    ELSE ""

Count(log, entry) == Len(SelectSeq(log, LAMBDA e : e = entry))

\* C1: the digits handed to the DTMF handler since the last session reset,
\* none of them '#', are the password buffer: the same digits in the same
\* order, each once.
C1_BufferIsDeliveredDigits ==
    ~state.nil => state.password = delivered

\* C1: the digits 5,2,2,2,6,6,3,6 were delivered after a reset.
C1_TargetTyped ==
    ~state.nil /\ delivered = <<"5", "2", "2", "2", "6", "6", "3", "6">>

\* C2: once a '#' has been handled the buffer is empty and the handling
\* asked for no prompt, neither a digit prompt nor the success prompt.
C2_ResetClearsAndPlaysNothing ==
    HandledDigit = "#" =>
        /\ state = NewState
        /\ Plays(effects) = <<>>
        /\ effects = <<<<"reset", "">>>>

\* C2: a '#' was handled while prompts of earlier digits were still queued.
C2_ResetHandled ==
    HandledDigit = "#" /\ queue # <<>> /\ ~state.nil

\* C3: once a digit other than '#' has been appended, the handling asked for
\* the success prompt once if the buffer is now the target password and not
\* at all otherwise (a strict prefix, a strict extension, anything else).
C3_SuccessExactlyOnMatch ==
    (HandledDigit \notin {"", "#"} /\ ~crashed) =>
        /\ Count(effects, <<"play", SuccessPrompt>>)
              = (IF state.password = <<"5", "2", "2", "2", "6", "6", "3", "6">>
                 THEN 1 ELSE 0)
        /\ effects[1] = <<"play", "audio/" \o HandledDigit \o ".mp3">>
        /\ effects[2] = <<"append", HandledDigit>>

\* C3: the last digit of the target password was appended and the success
\* prompt asked for.
C3_Matched ==
    /\ HandledDigit = "6"
    /\ state.password = <<"5", "2", "2", "2", "6", "6", "3", "6">>
    /\ effects[3] = <<"play", SuccessPrompt>>

\* C4: in every step the buffer stays as it is, grows by one digit appended
\* at its end, or becomes empty.
C4_BufferGrowsOrResets ==
    [][ \/ state'.password = state.password
        \/ state'.password = <<>>
        \/ /\ Len(state'.password) = Len(state.password) + 1
           /\ SubSeq(state'.password, 1, Len(state.password)) = state.password
      ]_vars

\* C4: a digit was appended to a buffer that already held digits.
C4_Grown ==
    /\ Len(state.password) >= 3
    /\ HandledDigit \notin {"", "#"}

----------------------------------------------------------------------------
(* The incoming-call handler *)

HandledNumber ==
    IF cur.kind = "+CLIP" /\ call.incomingHandler
    THEN extractPhoneNumber(cur.data)
    ELSE ""

\* C5: no indication waits for delivery while the incoming-call handler is
\* sending the notification, exchanging the answer command with the modem
\* or asleep.
C5_NoIndicationWaitsBehindHandler ==
    pending # <<>> => iPc \notin {"notify", "pickup", "awaitA", "sleep"}

\* C6: when the handling of a caller-ID indication with a number in quotes
\* is over, it has notified Discord with that number, sent the answer
\* command, reset the session and asked for the welcome prompt, each once and
\* in that order, and the buffer is empty.
C6_IncomingCallHandling ==
    (HandledNumber # "" /\ iPc = "idle") =>
        /\ \E r \in {"OK", "ERROR"} :
              effects = << <<"notify", HandledNumber>>,
                           <<"command", "A">>,
                           <<"response", r>>,
                           <<"reset", "">>,
                           <<"play", WelcomePrompt>> >>
        /\ state = NewState

\* C6: the call from +15551234567 was answered and its handling is over.
C6_CallHandled ==
    /\ HandledNumber = "+15551234567"
    /\ iPc = "idle"
    /\ effects[3] = <<"response", "OK">>

C12_UnparseableDropped ==
    [][ (pending # <<>> /\ pending' = Tail(pending)) =>
          /\ Head(pending).data \in {<<" ", Quote, Quote, ",128">>, <<" ", "E">>} =>
                /\ state' = state
                /\ delivered' = delivered
                /\ queue' = queue
                /\ effects' = <<>>
                /\ iPc' = "idle"
                /\ crashed' = crashed
          /\ (/\ cur.data \in {<<" ", Quote, Quote, ",128">>, <<" ", "E">>}
              /\ Head(pending) = [kind |-> "+RXDTMF", data |-> <<" ", "2">>]
              /\ ~state.nil) =>
                /\ state'.password = Append(state.password, "2")
                /\ effects'[1] = <<"play", "audio/2.mp3">>
      ]_vars

\* C12: a +RXDTMF line with the character E was dropped while the buffer
\* held digits, and the next indication waits for delivery.
C12_DroppedMidPassword ==
    /\ cur = [kind |-> "+RXDTMF", data |-> <<" ", "E">>]
    /\ effects = <<>>
    /\ iPc = "idle"
    /\ state.password = <<"5", "2">>
    /\ pending # <<>>

----------------------------------------------------------------------------
(* The /call and /hangup commands *)

C8_NoDialForBadNumber ==
    at.cmd = "D" => at.arg \notin {"", "12ab"}

\* C8, amended: StartCall sends the dial command with the number as given,
\* the empty one included, and the only error it returns is the modem's.
C8_DialSentAsGiven ==
    /\ (dCmd = "call" /\ dPc = "await") =>
          at = [cmd |-> "D", arg |-> dArg, from |-> "discord", line |-> at.line]
    /\ (dCmd = "call" /\ dPc = "reply") => dErr \in {"", "ERROR"}

\* C8: the dial command for the empty number is in flight.
C8_EmptyNumberDialled ==
    at.cmd = "D" /\ at.arg = "" /\ dArg = ""

\* C9: when the listener is done with a /call or a /hangup, it has sent the
\* command, had the modem's answer, and then either replied with the failure
\* and its reason and notified nothing (ERROR), or replied with the success
\* and sent one call notification after it (OK).
C9_ReplyFollowsModemAnswer ==
    (dCmd # "" /\ dPc = "idle") =>
        /\ Len(dLog) >= 3
        /\ dLog[1][1] = "command"
        /\ dLog[2][1] = "response"
        /\ IF dLog[2][2] = "ERROR"
           THEN /\ Len(dLog) = 3
                /\ dLog[3] = <<"reply",
                               IF dCmd = "call"
                               THEN "Call has **not** been started: ERROR"
                               ELSE "Call has **not** been hung up: ERROR">>
           ELSE /\ Len(dLog) = 4
                /\ dLog[3] = <<"reply",
                               IF dCmd = "call"
                               THEN "Calling " \o dArg \o "..."
                               ELSE "Call hung up!">>
                /\ dLog[4] = <<"notify",
                               IF dCmd = "call"
                               THEN "Calling " \o dArg
                               ELSE "Call ended">>

\* C9: a /hangup the modem rejected has been replied to.
C9_RejectedHangupReplied ==
    /\ dCmd = "hangup"
    /\ dPc = "idle"
    /\ dErr = "ERROR"

\* C14: once HangUpCall has returned without error, and for as long as the
\* line stays idle, no digit is added to the session's buffer.
C14_NoDigitAfterHangUp ==
    [][ (/\ dCmd = "hangup"
         /\ dErr = ""
         /\ dPc \in {"reply", "notify", "idle"}
         /\ line = "idle"
         /\ ~state.nil) =>
            Len(state'.password) <= Len(state.password)
      ]_vars

----------------------------------------------------------------------------
(* parseCallStatus: a +CLCC line of GetCallStatus's response                *)

\* fields of a status line
MaxFields == 7

\* The choices for the i-th field of a line, as characters: the index with
\* the blank after "+CLCC:", direction, status, mode, the multi-party flag,
\* the number, its type, and the name after them.
FieldChoices(i) ==
    CASE i = 1 -> {<<" ", "1">>, <<"1", "2">>, <<" ", "x">>, <<>>}
      [] i = 2 -> {<<"0">>, <<"1">>, <<" ", "1">>, <<"2">>}
      [] i = 3 -> {<<c>> : c \in {"0", "1", "2", "3", "4", "5", "6"}}
                    \cup {<<" ", "4", " ">>}
      [] i = 4 -> {<<"0">>, <<"1">>, <<"2">>, <<"3">>}
      [] i = 5 -> {<<"0">>}
      [] i = 6 -> {<<Quote, CallerNumber, Quote>>, <<" ", Quote, Quote>>, <<>>}
      [] i = 7 -> {<<"1", "2", "9">>, <<" ", "1", "4", "5">>}
      [] OTHER -> {<<Quote, "Bob", Quote>>}

\* the status lines the modem may send: up to MaxFields fields with commas
\* between them
StatusLines ==
    LET lines[n \in 1..MaxFields] ==
            IF n = 1 THEN FieldChoices(1)
            ELSE {l \o <<",">> \o f : l \in lines[n - 1], f \in FieldChoices(n)}
    IN UNION {lines[n] : n \in 1..MaxFields}

\* strings.Split(data, sep): one part more than there are separators
RECURSIVE Split(_, _)
Split(data, sep) ==
    IF \A i \in 1..Len(data) : data[i] # sep THEN <<data>>
    ELSE LET k == CHOOSE i \in 1..Len(data) :
                      data[i] = sep /\ \A j \in 1..(i - 1) : data[j] # sep
         IN <<SubSeq(data, 1, k - 1)>> \o Split(SubSeq(data, k + 1, Len(data)), sep)

\* strings.Trim(s, c), and strings.TrimSpace(s) for c a blank
Trim(s, c) ==
    LET keep == {i \in 1..Len(s) : s[i] # c}
    IN IF keep = {} THEN <<>>
       ELSE SubSeq(s, CHOOSE i \in keep : \A j \in keep : i <= j,
                      CHOOSE i \in keep : \A j \in keep : i >= j)

\* strconv.Atoi: an optional sign and decimal digits, at least one
Atoi(s) ==
    LET signed == s # <<>> /\ Head(s) \in {"+", "-"}
        digits == IF signed THEN Tail(s) ELSE s
        chars == <<"0", "1", "2", "3", "4", "5", "6", "7", "8", "9">>
        value[k \in 0..Len(digits)] ==
            IF k = 0 THEN 0
            ELSE 10 * value[k - 1]
                   + (CHOOSE v \in 0..9 : chars[v + 1] = digits[k])
    IN IF digits # <<>> /\ \A i \in 1..Len(digits) : digits[i] \in {chars[v] : v \in 1..10}
       THEN [ok |-> TRUE,
             value |-> IF Head(s) = "-" THEN 0 - value[Len(digits)]
                       ELSE value[Len(digits)]]
       ELSE [ok |-> FALSE, value |-> 0]

CodeNameShifted(field, code) ==
    CASE field = "Direction" /\ code = <<"0">> -> "MT"
      [] field = "Direction" /\ code = <<"1">> -> "MO"
      [] field = "Status" /\ code = <<"4">> -> "WAITING"
      [] OTHER -> "UNKNOWN"

\* the three switches on the trimmed direction, status and mode fields
CodeName(field, code) ==
    CASE field = "Direction" /\ code = <<"0">> -> "MO"
      [] field = "Direction" /\ code = <<"1">> -> "MT"
      [] field = "Status" /\ code = <<"0">> -> "ACTIVE"
      [] field = "Status" /\ code = <<"1">> -> "HELD"
      [] field = "Status" /\ code = <<"2">> -> "DIALING"
      [] field = "Status" /\ code = <<"3">> -> "ALERTING"
      [] field = "Status" /\ code = <<"4">> -> "INCOMING"
      [] field = "Status" /\ code = <<"5">> -> "WAITING"
      [] field = "Mode" /\ code = <<"0">> -> "VOICE"
      [] field = "Mode" /\ code = <<"1">> -> "DATA"
      [] field = "Mode" /\ code = <<"2">> -> "FAX"
      [] OTHER -> "UNKNOWN"

\* the CallStatus and the error for the characters after "+CLCC:"; Number
\* and Type are kept as characters
parseCallStatus(data) ==
    LET parts == Split(data, ",")
        failed(msg) == [NoStatusLine.call EXCEPT !.err = msg]
    IN IF Len(parts) < 5
       THEN failed("invalid CLCC response format")
       ELSE LET index == Atoi(Trim(parts[1], " "))
            IN IF ~index.ok
               THEN failed("invalid call index")
               ELSE [err |-> "",
                     Index |-> index.value,
                     Direction |-> CodeName("Direction", Trim(parts[2], " ")),
                     Status |-> CodeName("Status", Trim(parts[3], " ")),
                     Mode |-> CodeName("Mode", Trim(parts[4], " ")),
                     Number |-> IF Len(parts) > 5
                                THEN Trim(Trim(parts[6], " "), Quote)
                                ELSE <<>>,
                     Type |-> IF Len(parts) > 6 THEN Trim(parts[7], " ") ELSE <<>>]

\* GetCallStatus hands a line of the response to parseCallStatus
ParseStatusLine ==
    /\ ~clcc.parsed
    /\ clcc' = [clcc EXCEPT !.parsed = TRUE, !.call = parseCallStatus(clcc.data)]
    /\ UNCHANGED <<controlVars, svcVars, ctl, legVars>>

InitParse ==
    /\ InitControl
    /\ cache = AllPrompts
    /\ \E data \in StatusLines : clcc = [NoStatusLine EXCEPT !.data = data]
    /\ ctl = NoOperation
    /\ recv = NewALSAReceiver
    /\ prov = NewAudioProvider
    /\ strm = NewPCMStreamer
    /\ live = NewLivePath
    /\ assets = [NoAssets EXCEPT !.loaded = TRUE]
    /\ mach = NewMachine
    /\ cfg = NoConfig
    /\ wrk = NoCall
    /\ ply = NewPlayer

SpecParse == InitParse /\ [][ParseStatusLine]_vars

\* The record of the documented field order and code tables for the line
\* parsed: UNKNOWN for a code outside its table, the number without quotes.
Documented ==
    LET parts == Split(clcc.data, ",")
        field(i) == IF i <= Len(parts) THEN parts[i] ELSE <<>>
        blank(f) == SelectSeq(f, LAMBDA c : c # " ")
        lookup(table, f) ==
            IF Len(blank(f)) = 1 /\ blank(f)[1] \in DOMAIN table
            THEN table[blank(f)[1]] ELSE "UNKNOWN"
        direction == [c \in {"0", "1"} |-> IF c = "0" THEN "MO" ELSE "MT"]
        status == [c \in {"0", "1", "2", "3", "4", "5"} |->
                     CASE c = "0" -> "ACTIVE" [] c = "1" -> "HELD"
                       [] c = "2" -> "DIALING" [] c = "3" -> "ALERTING"
                       [] c = "4" -> "INCOMING" [] OTHER -> "WAITING"]
        mode == [c \in {"0", "1", "2"} |->
                   CASE c = "0" -> "VOICE" [] c = "1" -> "DATA" [] OTHER -> "FAX"]
    IN [fields |-> Len(parts),
        integer |-> blank(field(1)) \in {<<"1">>, <<"1", "2">>},
        Index |-> IF blank(field(1)) = <<"1">> THEN 1 ELSE 12,
        Direction |-> lookup(direction, field(2)),
        Status |-> lookup(status, field(3)),
        Mode |-> lookup(mode, field(4)),
        Number |-> SelectSeq(field(6), LAMBDA c : c \notin {" ", Quote}),
        Type |-> blank(field(7))]

\* C11, as claimed: parsing fails exactly when the line has fewer than 5
\* fields, and every other line yields the record of the code tables.
C11_FailsOnlyOnShortLines ==
    clcc.parsed =>
        IF Documented.fields < 5 THEN clcc.call.err # ""
        ELSE /\ clcc.call.err = ""
             /\ clcc.call.Direction = Documented.Direction
             /\ clcc.call.Status = Documented.Status
             /\ clcc.call.Mode = Documented.Mode

\* C11, amended: parsing fails when the line has fewer than 5 fields or when
\* its first field is not a decimal integer; every other line yields that
\* integer as index, the direction, status and mode of the code tables with
\* UNKNOWN for any other code, and the number (unquoted) and type of the
\* sixth and seventh fields.
C11_ParsesAsDocumented ==
    clcc.parsed =>
        IF Documented.fields < 5 \/ ~Documented.integer
        THEN clcc.call.err # "" /\ clcc.call.Status = ""
        ELSE /\ clcc.call.err = ""
             /\ clcc.call.Index = Documented.Index
             /\ clcc.call.Direction = Documented.Direction
             /\ clcc.call.Status = Documented.Status
             /\ clcc.call.Mode = Documented.Mode
             /\ clcc.call.Number = Documented.Number
             /\ clcc.call.Type = Documented.Type

\* C11: the line 1,1,4,0,0,"+15551234567",129 was parsed to index 1, MT,
\* INCOMING, VOICE, the number and type 129.
C11_ExampleParsed ==
    /\ clcc.parsed
    /\ clcc.data = <<" ", "1", ",", "1", ",", "4", ",", "0", ",", "0", ",",
                     Quote, "+15551234567", Quote, ",", "1", "2", "9">>
    /\ clcc.call = [err |-> "", Index |-> 1, Direction |-> "MT",
                    Status |-> "INCOMING", Mode |-> "VOICE",
                    Number |-> <<"+15551234567">>, Type |-> <<"1", "2", "9">>]

----------------------------------------------------------------------------
(* The listening operations of call.Call, called by another thread while   *)
(* the delivery task runs the indication callbacks. The operations hold    *)
(* c.indicationMutex from their first line to their return; the callbacks  *)
(* read c.incomingHandler and c.dtmfHandler without it.                    *)

\* The transport hands the next indication to its callback, which reads the
\* handler field (and extracts the number or the digit) to decide on a call.
DeliverIndication ==
    /\ Running
    /\ iPc = "idle"
    /\ pending # <<>>
    /\ pending' = Tail(pending)
    /\ cur' = Head(pending)
    /\ effects' = <<>>
    /\ LET ind == Head(pending)
           phoneNumber == extractPhoneNumber(ind.data)
           digit == extractDTMFDigit(ind.data)
       IN IF ind.kind \notin inds
          THEN iPc' = "idle" /\ iNum' = iNum
          ELSE IF ind.kind = "+CLIP"
          THEN IF phoneNumber # "" /\ call.incomingHandler
               THEN iPc' = "call" /\ iNum' = phoneNumber
               ELSE iPc' = "idle" /\ iNum' = iNum
          ELSE IF call.dtmfHandler /\ digit # ""
               THEN iPc' = "call" /\ iNum' = iNum
               ELSE iPc' = "idle" /\ iNum' = iNum
    /\ UNCHANGED <<compVars, modemVars, state, cache, queue, line, at, delivered,
                   crashed, discordVars>>

\* c.incomingHandler(phoneNumber) / c.dtmfHandler(digit): the field is read
\* again and called; calling a nil func panics.
CallHandler ==
    /\ Running
    /\ iPc = "call"
    /\ LET digit == extractDTMFDigit(cur.data)
           r == DTMFHandler(state, digit)
       IN IF cur.kind = "+CLIP"
          THEN /\ iPc' = IF call.incomingHandler THEN "notify" ELSE "idle"
               /\ crashed' = ~call.incomingHandler
               /\ UNCHANGED <<state, effects, queue, delivered>>
          ELSE IF call.dtmfHandler
          THEN /\ state' = r.state
               /\ effects' = r.log
               /\ queue' = AddAllPredecoded(queue, r.log)
               /\ crashed' = r.panic
               /\ delivered' = IF digit = "#" THEN <<>> ELSE Append(delivered, digit)
               /\ iPc' = "idle"
          ELSE /\ crashed' = TRUE
               /\ iPc' = "idle"
               /\ UNCHANGED <<state, effects, queue, delivered>>
    /\ UNCHANGED <<compVars, modemVars, cache, line, pending, at, iNum, cur,
                   discordVars>>

\* a StopListening that does not look at isListening
StopListeningUnchecked(removed) ==
    /\ Running
    /\ ctl.pc = "idle"
    /\ ctl' = [op |-> "StopListening", pc |-> "locked", err |-> ""]
    /\ inds' = IF removed THEN {} ELSE inds
    /\ UNCHANGED <<svcVars, clcc, legVars, started, call, state, cache, queue,
                   line, pending, at, indVars, delivered, crashed, discordVars>>

\* Call.StartListening(handler) up to its command: the mutex is taken; when
\* listening already, or given a nil handler, it returns an error at once;
\* else the handler is stored and the +CLIP indication registered
StartListening(handler) ==
    /\ Running
    /\ ctl.pc = "idle"
    /\ LET op == IF handler THEN "StartListening" ELSE "StartListening(nil)"
       IN IF call.isListening
          THEN /\ ctl' = [op |-> op, pc |-> "idle",
                          err |-> "already listening for incoming calls"]
               /\ UNCHANGED <<call, inds>>
          ELSE IF ~handler
          THEN /\ ctl' = [op |-> op, pc |-> "idle",
                          err |-> "handler cannot be nil"]
               /\ UNCHANGED <<call, inds>>
          ELSE /\ ctl' = [op |-> op, pc |-> "locked", err |-> ""]
               /\ call' = [call EXCEPT !.incomingHandler = TRUE]
               /\ inds' = inds \cup {"+CLIP"}
    /\ UNCHANGED <<svcVars, clcc, legVars, started, state, cache, queue, line,
                   pending, at, indVars, delivered, crashed, discordVars>>

\* the rest of StartListening: "+CLIP=1" has been answered; isListening is
\* set when the modem accepted it, else the error is returned
StartListeningReturn(clipOk) ==
    /\ Running
    /\ ctl.pc = "locked"
    /\ ctl.op = "StartListening"
    /\ at = NoCmd
    /\ ctl' = [op |-> ctl.op, pc |-> "idle",
               err |-> IF clipOk THEN "" ELSE "failed to enable caller ID"]
    /\ call' = IF clipOk THEN [call EXCEPT !.isListening = TRUE] ELSE call
    /\ UNCHANGED <<svcVars, clcc, legVars, started, inds, state, cache, queue,
                   line, pending, at, indVars, delivered, crashed, discordVars>>

\* Call.StopListening up to its commands: the mutex is taken; when not
\* listening it returns an error at once; AddIndication(prefix, nil) is
\* asked for both prefixes, and the transport either drops the registration
\* or refuses the call (its error is not looked at).
StopListening(removed) ==
    /\ Running
    /\ ctl.pc = "idle"
    /\ IF ~call.isListening
       THEN /\ ctl' = [op |-> "StopListening", pc |-> "idle",
                       err |-> "not currently listening"]
            /\ inds' = inds
       ELSE /\ ctl' = [op |-> "StopListening", pc |-> "locked", err |-> ""]
            /\ inds' = IF removed THEN {} ELSE inds
    /\ UNCHANGED <<svcVars, clcc, legVars, started, call, state, cache, queue, line, pending, at,
                   indVars, delivered, crashed, discordVars>>

\* Call.SetDTMFHandler(handler): the mutex is taken
SetDTMFHandler(handler) ==
    /\ Running
    /\ ctl.pc = "idle"
    /\ ctl' = [op |-> IF handler THEN "SetDTMFHandler" ELSE "SetDTMFHandler(nil)",
               pc |-> "locked", err |-> ""]
    /\ UNCHANGED <<svcVars, clcc, legVars, controlVars>>

\* Call.DisableDTMFDetection up to its command: the mutex is taken and
\* AddIndication("+RXDTMF", nil) asked for
DisableDTMFDetection(removed) ==
    /\ Running
    /\ ctl.pc = "idle"
    /\ ctl' = [op |-> "DisableDTMFDetection", pc |-> "locked", err |-> ""]
    /\ inds' = IF removed THEN inds \ {"+RXDTMF"} ELSE inds
    /\ UNCHANGED <<svcVars, clcc, legVars, started, call, state, cache, queue, line, pending, at,
                   indVars, delivered, crashed, discordVars>>

\* The rest of the operation under way: its commands have been answered
\* (errors are logged at most), the fields are written, and the deferred
\* Unlock runs as it returns.
OperationReturn ==
    /\ Running
    /\ ctl.pc = "locked"
    /\ ctl.op # "StartListening"
    /\ at = NoCmd
    /\ ctl' = NoOperation
    /\ call' = CASE ctl.op = "StopListening" ->
                      [incomingHandler |-> FALSE, dtmfHandler |-> FALSE,
                       isListening |-> FALSE]
                 [] ctl.op = "SetDTMFHandler" -> [call EXCEPT !.dtmfHandler = TRUE]
                 [] OTHER -> [call EXCEPT !.dtmfHandler = FALSE]
    /\ UNCHANGED <<svcVars, clcc, legVars, started, inds, state, cache, queue, line, pending, at,
                   indVars, delivered, crashed, discordVars>>

NextListen ==
    \/ \E clipOk \in BOOLEAN : Initialize(clipOk)
    \/ \E data \in ClipPayloads : ModemRing(data)
    \/ \E data \in RxPayloads : ModemDTMF(data, KeyWithinDigits(data))
    \/ RemoteHangup
    \/ \E ok \in BOOLEAN : ModemRespond(ok)
    \/ QueuePlay
    \/ DeliverIndication
    \/ CallHandler
    \/ IncomingNotify
    \/ IncomingPickUp
    \/ IncomingReset
    \/ IncomingSleep
    \/ IncomingPrompt
    \/ \E removed \in BOOLEAN : StopListening(removed)
    \/ \E handler \in BOOLEAN : SetDTMFHandler(handler)
    \/ \E removed \in BOOLEAN : DisableDTMFDetection(removed)
    \/ OperationReturn

SpecListen == Init /\ [][NextListen]_vars

\* C13: while an operation holds the mutex to write the handler fields, no
\* callback is between reading a handler field and calling it: the reads
\* and writes of the registered handlers never overlap.
C13_HandlersUnderMutex ==
    ctl.pc = "locked" => iPc # "call"

----------------------------------------------------------------------------
(* ALSAReceiver: PCM frames written to the stdin of an ffmpeg process that *)
(* plays them. ReceivePCMFrame, Close and the cleanup of the monitor       *)
(* goroutine each run under r.mu.                                          *)

UserIDs == {"u1"}

\* ALSAReceiver.ReceivePCMFrame: the frame is written to r.stdin unless it
\* is nil; the write fails when the pipe is closed or nothing reads it
ReceivePCMFrame(userID) ==
    /\ ~recv.panicked
    /\ recv' = [recv EXCEPT
                  !.users = @ \cup {userID},
                  !.wrote = recv.stdin # "nil",
                  !.err = IF recv.stdin = "nil"
                          THEN "ffmpeg stdin is not available"
                          ELSE IF recv.pipe = "closed" \/ recv.cmd # "running"
                          THEN "failed to write to ffmpeg stdin"
                          ELSE ""]
    /\ UNCHANGED <<controlVars, svcVars, clcc, ctl, prov, strm>>

\* ALSAReceiver.CleanupUser
CleanupUser(userID) ==
    /\ ~recv.panicked
    /\ userID \in recv.users
    /\ recv' = [recv EXCEPT !.users = @ \ {userID}]
    /\ UNCHANGED <<controlVars, svcVars, clcc, ctl, prov, strm>>

\* ALSAReceiver.Close: users cleared, stdin closed and set to nil, the
\* context cancelled, done closed; closing a closed channel panics
ALSAReceiverClose ==
    /\ ~recv.panicked
    /\ recv' = [recv EXCEPT
                  !.users = {},
                  !.pipe = IF recv.stdin # "nil" THEN "closed" ELSE @,
                  !.stdin = "nil",
                  !.cancelled = TRUE,
                  !.done = "closed",
                  !.panicked = recv.done = "closed"]
    /\ UNCHANGED <<controlVars, svcVars, clcc, ctl, prov, strm>>

\* the ffmpeg process ends, on its own, on the end of its input or killed by
\* the cancelled context: with status 0 or with a failure
ReceiverProcessExit(status) ==
    /\ ~recv.panicked
    /\ recv.cmd = "running"
    /\ recv' = [recv EXCEPT !.cmd = status]
    /\ UNCHANGED <<controlVars, svcVars, clcc, ctl, prov, strm>>

\* The monitor goroutine: r.cmd.Wait() returns once the process has ended
\* (Wait closes the stdin pipe); on an error stdin is closed and set to nil
\* under r.mu; the deferred r.cancel() runs.
Monitor ==
    /\ ~recv.panicked
    /\ recv.monitor = "waiting"
    /\ recv.cmd # "running"
    /\ recv' = [recv EXCEPT
                  !.monitor = "finished",
                  !.pipe = "closed",
                  !.stdin = IF recv.cmd = "failed" THEN "nil" ELSE @,
                  !.cancelled = TRUE]
    /\ UNCHANGED <<controlVars, svcVars, clcc, ctl, prov, strm>>

----------------------------------------------------------------------------
(* AudioProvider: PCM frames read from the stdout of an ffmpeg process     *)
(* that captures them.                                                     *)

\* frames of capture the pipe and the reader's buffer hold at most
MaxBuffered == 2

SamplesPerFrame == 960

\* frameSize := 960 * p.channels * 2
FrameSize == SamplesPerFrame * prov.channels * 2

\* the process writes half a frame of capture to its stdout
CaptureWrite ==
    /\ prov.cmd = "running"
    /\ prov.pipe = "open"
    /\ prov.unread + FrameSize \div 2 <= MaxBuffered * FrameSize
    /\ prov' = [prov EXCEPT !.unread = @ + FrameSize \div 2]
    /\ UNCHANGED <<controlVars, svcVars, clcc, ctl, recv, strm>>

\* the process ends: the device is gone, its output pipe was closed
CaptureExit ==
    /\ prov.cmd = "running"
    /\ prov' = [prov EXCEPT !.cmd = "exited"]
    /\ UNCHANGED <<controlVars, svcVars, clcc, ctl, recv, strm>>

\* AudioProvider.ProvidePCMFrame, when io.ReadFull returns: a full frame
\* gives its samples (after Close only if the reader had it buffered), a
\* closed pipe gives os.ErrClosed, the end of the stream gives io.EOF before
\* the first byte of a frame and io.ErrUnexpectedEOF after it; io.EOF and
\* os.ErrClosed cancel done.
ProvidePCMFrame(buffered) ==
    /\ prov.pipe = "closed" \/ prov.unread >= FrameSize \/ prov.cmd = "exited"
    /\ buffered => prov.unread >= FrameSize
    /\ ~buffered => (prov.pipe = "closed" \/ prov.unread < FrameSize)
    /\ prov' =
          IF buffered
          THEN [prov EXCEPT !.samples = FrameSize \div 2, !.err = "",
                            !.unread = @ - FrameSize]
          ELSE IF prov.pipe = "closed" \/ prov.unread = 0
          THEN [prov EXCEPT !.samples = 0, !.err = "EOF", !.done = TRUE,
                            !.unread = 0]
          ELSE [prov EXCEPT !.samples = 0, !.unread = 0,
                            !.err = "error reading PCM data: unexpected EOF"]
    /\ UNCHANGED <<controlVars, svcVars, clcc, ctl, recv, strm>>

\* AudioProvider.Close: p.pipe.Close(), p.doneFunc()
AudioProviderClose ==
    /\ prov' = [prov EXCEPT !.pipe = "closed", !.done = TRUE]
    /\ UNCHANGED <<controlVars, svcVars, clcc, ctl, recv, strm>>

\* AudioProvider.Wait returns: done is cancelled and cmd.Wait() is back
AudioProviderWait ==
    /\ ~prov.waited
    /\ prov.done
    /\ prov.cmd = "exited"
    /\ prov' = [prov EXCEPT !.waited = TRUE]
    /\ UNCHANGED <<controlVars, svcVars, clcc, ctl, recv, strm>>

\* the two subprocess legs
NextLegs ==
    \/ \E userID \in UserIDs : ReceivePCMFrame(userID)
    \/ \E userID \in UserIDs : CleanupUser(userID)
    \/ ALSAReceiverClose
    \/ \E status \in {"exited", "failed"} : ReceiverProcessExit(status)
    \/ Monitor
    \/ CaptureWrite
    \/ CaptureExit
    \/ \E buffered \in BOOLEAN : ProvidePCMFrame(buffered)
    \/ AudioProviderClose
    \/ AudioProviderWait

SpecLegs == Init /\ [][NextLegs]_vars

\* C15: no Close of an audio leg panics or returns an error.
C15_CloseNeverFails ==
    ~recv.panicked /\ strm.err = ""

\* C17: a leg is closed, the done channel of the playback leg closed or
\* the capture leg's pipe closed and its done cancelled, only once its
\* process has ended.
C17_ClosedOnlyAfterExit ==
    /\ recv.done = "closed" => recv.cmd # "running"
    /\ (prov.pipe = "closed" /\ prov.done) => prov.cmd = "exited"

\* C19: once the monitor goroutine has seen the process end, the stdin
\* handle is cleared, whatever the exit status.
C19_ExitClearsHandle ==
    recv.monitor = "finished" => recv.stdin = "nil"

\* C18: ProvidePCMFrame returns a full frame of 960 samples for each
\* channel, or io.EOF with done cancelled, and never another error.
C18_CleanCloseIsEndOfStream ==
    \/ prov.err = "" /\ prov.samples \in {0, 960 * prov.channels}
    \/ prov.err = "EOF" /\ prov.done

----------------------------------------------------------------------------
(* PCMStreamer: the live audio of the voice channel, pulled by the speaker *)
(* from the packets OpusPCMReceiver puts in its channel.                   *)

\* packets the channel holds at most
MaxPackets == 2

\* frames of a packet
PacketFrames == 2

\* len(samples) of a pull
Pulls == {1, 2, 3}

\* OpusPCMReceiver.ReceivePCMFrame: r.Ch <- packet; a send on a closed
\* channel panics
PushPacket ==
    /\ strm.panic = ""
    /\ strm.packets < MaxPackets
    /\ strm' = IF strm.ch = "closed"
               THEN [strm EXCEPT !.panic = "send on closed channel"]
               ELSE [strm EXCEPT !.packets = @ + 1]
    /\ UNCHANGED <<controlVars, svcVars, clcc, ctl, recv, prov>>

\* PCMStreamer.Close: ErrAlreadyClosed when closed; else closed is set and a
\* goroutine started that sends on closedCh and then closes it (waiting
\* notes that a pull was waiting on the empty channel at that time)
PCMStreamerClose ==
    /\ strm.panic = ""
    /\ strm' = IF strm.closed
               THEN [strm EXCEPT !.err = "already closed"]
               ELSE [strm EXCEPT !.closed = TRUE, !.closedCh = "sending",
                                 !.waiting = strm.pc = "select" /\ strm.packets = 0]
    /\ UNCHANGED <<controlVars, svcVars, clcc, ctl, recv, prov>>

\* the pull after its inner loop has copied what s.pcm holds: it returns
\* when samples is full and goes to the select otherwise
Copied(s) ==
    LET k == IF s.want - s.n < s.pcmLeft THEN s.want - s.n ELSE s.pcmLeft
    IN IF s.n + k = s.want
       THEN [s EXCEPT !.pcmLeft = @ - k, !.n = 0, !.want = 0, !.pc = "idle",
                      !.result = [n |-> s.want, ok |-> TRUE, closed |-> s.waiting]]
       ELSE [s EXCEPT !.pcmLeft = @ - k, !.n = @ + k, !.pc = "select"]

\* PCMStreamer.Stream(samples) up to its return or its first select
Stream(len) ==
    /\ strm.panic = ""
    /\ strm.pc = "idle"
    /\ strm' = IF strm.closed
               THEN [strm EXCEPT !.result = [n |-> 0, ok |-> FALSE, closed |-> TRUE]]
               ELSE Copied([strm EXCEPT !.want = len, !.n = 0])
    /\ UNCHANGED <<controlVars, svcVars, clcc, ctl, recv, prov>>

\* case packet := <-s.packets; s.pcm = packet.PCM: a closed channel gives
\* the packets it still holds and then nil, and packet.PCM of a nil packet
\* is a nil pointer dereference
StreamPacket ==
    /\ strm.panic = ""
    /\ strm.pc = "select"
    /\ strm.packets > 0 \/ strm.ch = "closed"
    /\ strm' = IF strm.packets > 0
               THEN Copied([strm EXCEPT !.packets = @ - 1, !.pcmLeft = PacketFrames])
               ELSE [strm EXCEPT !.panic = "nil pointer dereference"]
    /\ UNCHANGED <<controlVars, svcVars, clcc, ctl, recv, prov>>

\* case <-s.closedCh: return 0, false; the goroutine of Close goes on to
\* close the channel
StreamClosed ==
    /\ strm.panic = ""
    /\ strm.pc = "select"
    /\ strm.closedCh # "open"
    /\ strm' = [strm EXCEPT !.closedCh = "closed", !.pc = "idle", !.n = 0,
                            !.want = 0,
                            !.result = [n |-> 0, ok |-> FALSE, closed |-> TRUE]]
    /\ UNCHANGED <<controlVars, svcVars, clcc, ctl, recv, prov>>

\* OpusPCMReceiver.Close: close(r.Ch), deferred by ConnectAndPlay; closing a
\* closed channel panics
OpusPCMReceiverClose ==
    /\ strm.panic = ""
    /\ strm' = IF strm.ch = "closed"
               THEN [strm EXCEPT !.panic = "close of closed channel"]
               ELSE [strm EXCEPT !.ch = "closed"]
    /\ UNCHANGED <<controlVars, svcVars, clcc, ctl, recv, prov>>

NextStream ==
    \/ PushPacket
    \/ PCMStreamerClose
    \/ OpusPCMReceiverClose
    \/ \E len \in Pulls : Stream(len)
    \/ StreamPacket
    \/ StreamClosed

SpecStream == Init /\ [][NextStream]_vars

\* C16: a Stream call made after Close, or waiting for a packet on the
\* empty channel when Close was called, returns (0, false).
C16_NoFrameAfterClose ==
    strm.result.closed => (strm.result.n = 0 /\ ~strm.result.ok)

\* C20: a pull never waits for a packet: when the channel is empty it
\* returns its frames all the same.
C20_PullNeverWaits ==
    ~(strm.pc = "select" /\ strm.packets = 0 /\ strm.closedCh = "open")

----------------------------------------------------------------------------
(* The voice channel's audio: OpusPCMReceiver puts the packets of the      *)
(* channel's speakers in r.Ch, the PCMStreamer d.streamer reads them, and  *)
(* the mixer of Playback pulls the streamers AddStream has given it. The   *)
(* event handler of ConnectAndPlay replaces d.streamer on opcode 11 and    *)
(* closes it when a client disconnects.                                    *)

\* packets the speakers send in all
MaxPushed == 3

\* voice gateway events handled in all
MaxEvents == 2

\* the frames of packet pkt, each named by its packet and its place in it
Frames(pkt) == [i \in 1..PacketFrames |-> <<pkt, i>>]

\* OpusPCMReceiver.ReceivePCMFrame: r.Ch <- packet, whatever the state of
\* d.streamer (late: the packet was taken while d.streamer was closed)
ReceiveLiveFrame ==
    /\ live.pushed < MaxPushed
    /\ Len(live.ch) < MaxPackets
    /\ live' = [live EXCEPT
                   !.ch = Append(@, live.pushed + 1),
                   !.pushed = @ + 1,
                   !.late = live.streamers[Len(live.streamers)].closed]
    /\ UNCHANGED <<controlVars, clcc, ctl, legVars, assets, mach, cfg, wrk, ply>>

\* PCMStreamer.Close on a streamer of the live path; its error is dropped
CloseStreamer(s) ==
    IF s.closed THEN s ELSE [s EXCEPT !.closed = TRUE, !.closedCh = "sending"]

\* opcode 11: d.streamer.Close(); d.streamer = d.streamer.Reopen();
\* d.playback.AddStream(d.streamer) (owed: the packets in r.Ch just then).
\* AddStream adds the streamer to the mixer and to p.streamers, or returns
\* an error when the playback is closed.
Renegotiate ==
    /\ live.events < MaxEvents
    /\ LET k == Len(live.streamers)
           old == live.streamers[k]
       IN live' = [live EXCEPT
                      !.events = @ + 1,
                      !.streamers = [@ EXCEPT ![k] = CloseStreamer(old)]
                                    \o <<Reopen(old)>>,
                      !.mixer = IF live.closed THEN @ ELSE @ \cup {k + 1},
                      !.registered = IF live.closed THEN @ ELSE Append(@, k + 1),
                      !.err = IF live.closed THEN "playback is closed" ELSE "",
                      !.owed = {live.ch[j] : j \in 1..Len(live.ch)}]
    /\ UNCHANGED <<controlVars, clcc, ctl, legVars, assets, mach, cfg, wrk, ply>>

\* voice.OpcodeClientDisconnect: d.streamer.Close()
ClientDisconnect ==
    /\ live.events < MaxEvents
    /\ live' = [live EXCEPT
                   !.events = @ + 1,
                   !.streamers[Len(live.streamers)] = CloseStreamer(@)]
    /\ UNCHANGED <<controlVars, clcc, ctl, legVars, assets, mach, cfg, wrk, ply>>

\* Stream of streamer i after its inner loop has copied what pcm holds into
\* samples, which held got: it returns (len(samples), true) when samples is
\* full, and the mixer adds the frames to its output; else it is at the
\* select
LiveCopied(l, i, pcm, want, got) ==
    LET k == IF want - Len(got) < Len(pcm) THEN want - Len(got) ELSE Len(pcm)
        samples == got \o SubSeq(pcm, 1, k)
        rest == SubSeq(pcm, k + 1, Len(pcm))
    IN IF Len(samples) = want
       THEN [l EXCEPT !.streamers[i].pcm = rest,
                      !.pull = [s |-> 0, want |-> 0, got |-> <<>>],
                      !.out = @ \o [j \in 1..want |-> <<i>> \o samples[j]]]
       ELSE [l EXCEPT !.streamers[i].pcm = rest,
                      !.pull = [s |-> i, want |-> want, got |-> samples]]

\* the mixer, under the speaker's lock, calls Stream of streamer i; a
\* streamer that returns ok = false is taken out of the mixer
MixerStream(i, len) ==
    /\ live.pull.s = 0
    /\ i \in live.mixer
    /\ live' = IF live.streamers[i].closed
               THEN [live EXCEPT !.mixer = @ \ {i}, !.dropped = @ \cup {i}]
               ELSE LiveCopied(live, i, live.streamers[i].pcm, len, <<>>)
    /\ UNCHANGED <<controlVars, clcc, ctl, legVars, assets, mach, cfg, wrk, ply>>

\* case packet := <-s.packets of the Stream call under way
MixerPacket ==
    /\ live.pull.s # 0
    /\ live.ch # <<>>
    /\ live' = LiveCopied([live EXCEPT !.ch = Tail(@)], live.pull.s,
                          Frames(Head(live.ch)), live.pull.want, live.pull.got)
    /\ UNCHANGED <<controlVars, clcc, ctl, legVars, assets, mach, cfg, wrk, ply>>

\* case <-s.closedCh of the Stream call under way: return 0, false, and the
\* mixer takes the streamer out
MixerClosed ==
    /\ live.pull.s # 0
    /\ live.streamers[live.pull.s].closedCh # "open"
    /\ live' = [live EXCEPT
                   !.streamers[live.pull.s].closedCh = "closed",
                   !.pull = [s |-> 0, want |-> 0, got |-> <<>>],
                   !.mixer = @ \ {live.pull.s},
                   !.dropped = @ \cup {live.pull.s}]
    /\ UNCHANGED <<controlVars, clcc, ctl, legVars, assets, mach, cfg, wrk, ply>>

\* Playback.SetVolume: unless the playback is closed, under the speaker's
\* lock the mixer is cleared (the prompt queue NewPlayback added to it
\* included: prompts) and every streamer of p.streamers added again
SetVolume ==
    /\ live.pull.s = 0
    /\ live' = IF live.closed THEN live
               ELSE [live EXCEPT
                        !.prompts = FALSE,
                        !.mixer = {live.registered[j] :
                                      j \in 1..Len(live.registered)}]
    /\ UNCHANGED <<controlVars, clcc, ctl, legVars, assets, mach, cfg, wrk, ply>>

\* Playback.Pause: p.ctrl.Paused = true unless closed
Pause ==
    /\ live.pull.s = 0
    /\ live' = IF live.closed THEN live ELSE [live EXCEPT !.paused = TRUE]
    /\ UNCHANGED <<controlVars, clcc, ctl, legVars, assets, mach, cfg, wrk, ply>>

\* Playback.Resume: p.ctrl.Paused = false unless closed
Resume ==
    /\ live.pull.s = 0
    /\ live' = IF live.closed THEN live ELSE [live EXCEPT !.paused = FALSE]
    /\ UNCHANGED <<controlVars, clcc, ctl, legVars, assets, mach, cfg, wrk, ply>>

\* Playback.Stop: unless closed, the mixer is cleared and p.streamers
\* emptied
PlaybackStop ==
    /\ live.pull.s = 0
    /\ live' = IF live.closed THEN live
               ELSE [live EXCEPT !.prompts = FALSE, !.mixer = {},
                                 !.registered = <<>>]
    /\ UNCHANGED <<controlVars, clcc, ctl, legVars, assets, mach, cfg, wrk, ply>>

\* Playback.Close: nil at once when closed already; else closed is set, the
\* mixer cleared, p.streamers emptied and the speaker closed
PlaybackClose ==
    /\ live.pull.s = 0
    /\ live' = IF live.closed THEN live
               ELSE [live EXCEPT !.closed = TRUE, !.prompts = FALSE,
                                 !.mixer = {}, !.registered = <<>>]
    /\ UNCHANGED <<controlVars, clcc, ctl, legVars, assets, mach, cfg, wrk, ply>>

\* Playback.IsPlaying
IsPlaying ==
    ~live.closed /\ ~live.paused

NextLive ==
    \/ ReceiveLiveFrame
    \/ Renegotiate
    \/ ClientDisconnect
    \/ \E i \in 1..(MaxEvents + 1), len \in Pulls : MixerStream(i, len)
    \/ MixerPacket
    \/ MixerClosed
    \/ SetVolume

SpecLive == Init /\ [][NextLive]_vars

\* C21: no frame a replacement streamer gives the mixer is one its
\* predecessor held unplayed when it was replaced, and a replacement that
\* has not been pulled yet holds no frame.
C21_NoStaleReplay ==
    /\ \A j \in 1..Len(live.out) :
          LET e == live.out[j]
              skipped == live.streamers[e[1]].skipped
          IN \A k \in 1..Len(skipped) : skipped[k] # <<e[2], e[3]>>
    /\ \A i \in 1..Len(live.streamers) :
          (\A j \in 1..Len(live.out) : live.out[j][1] # i) /\ live.pull.s # i
              => live.streamers[i].pcm = <<>>

\* C21 witness: a replacement whose predecessor held an unplayed frame
\* has given the mixer frames.
C21_ReplacementPulled ==
    \E j \in 1..Len(live.out) :
        /\ live.out[j][1] > 1
        /\ live.streamers[live.out[j][1]].skipped # <<>>

\* C22: every packet that was in the channel at the last renegotiation is
\* still in it, or each of its frames has reached the mixer or waits in
\* d.streamer for the next pull; and the frames reach the mixer in the
\* order of arrival.
C22_EnqueuedPacketsEmitted ==
    LET last == Len(live.streamers)
        Held(seq, f) == \E j \in 1..Len(seq) : seq[j] = f
    IN /\ \A p \in live.owed :
             \/ \E j \in 1..Len(live.ch) : live.ch[j] = p
             \/ \A i \in 1..PacketFrames :
                   \/ \E j \in 1..Len(live.out) :
                          <<live.out[j][2], live.out[j][3]>> = <<p, i>>
                   \/ Held(live.streamers[last].pcm, <<p, i>>)
                   \/ live.pull.s = last /\ Held(live.pull.got, <<p, i>>)
       /\ \A a, b \in 1..Len(live.out) :
             a < b => \/ live.out[a][2] < live.out[b][2]
                      \/ /\ live.out[a][2] = live.out[b][2]
                         /\ live.out[a][3] < live.out[b][3]

\* C23: ReceivePCMFrame takes no packet while d.streamer is closed.
C23_NoFrameWhileClosed ==
    ~live.late

\* C27: a streamer the mixer has taken out is never in the mixer again.
C27_RemovedStaysRemoved ==
    live.dropped \cap live.mixer = {}

----------------------------------------------------------------------------
(* The predecoded prompt cache: GetPredecodedCache decodes every asset the *)
(* first time it is called, and PredecodedSource.GetStreamer makes a       *)
(* streamer over the buffer of the prompt asked for.                       *)

\* prompt streamers made in all
MaxCursors == 3

\* samples of a prompt's buffer between the two ends GetStreamer cuts off
MaxSamples == 2

\* a name no asset has
UnknownPrompt == "audio/unknown.mp3"

\* the names AddPredecoded is asked for
PromptNames == {WelcomePrompt, "audio/5.mp3", UnknownPrompt}

\* initOnce.Do in GetPredecodedCache: loadAllAudio goes through the assets,
\* and an asset whose preloadFile fails is logged and left out (decoded:
\* the assets that did decode)
LoadAllAudio(decoded) ==
    /\ ~assets.loaded
    /\ cache' = decoded
    /\ assets' = [assets EXCEPT !.loaded = TRUE]
    /\ UNCHANGED <<modemVars, state, queue, line, pending, at, indVars,
                   delivered, crashed, discordVars, clcc, ctl, legVars, live,
                   mach, cfg, wrk, ply>>

\* streamers that share one position for each buffer: reading from
\* streamer i moves every streamer of the same prompt
StreamShared(cursors, i) ==
    [j \in 1..Len(cursors) |->
        IF cursors[j].name = cursors[i].name
        THEN [cursors[j] EXCEPT !.pos = cursors[i].pos + 1,
                                !.sample = <<cursors[i].name, cursors[i].pos>>]
        ELSE cursors[j]]

\* audio.Buffer.Streamer(from, to): each streamer has a position of its own
\* in the buffer; reading from streamer i yields the sample at its position
\* and moves it alone
StreamOne(cursors, i) ==
    [cursors EXCEPT ![i].pos = @ + 1,
                    ![i].sample = <<cursors[i].name, cursors[i].pos>>]

\* Playback.AddPredecoded(filePath) once the cache is there: GetAudio looks
\* the name up; when it is missing the error of GetStreamer is returned,
\* else a new streamer on the buffer is put in the queue
AddPrompt(filePath) ==
    /\ assets.loaded
    /\ Len(assets.cursors) < MaxCursors
    /\ queue' = AddPredecoded(queue, filePath)
    /\ assets' = [assets EXCEPT
                     !.asked = filePath,
                     !.err = IF filePath \in cache THEN ""
                             ELSE "predecoded audio not found",
                     !.queued = queue' # queue,
                     !.cursors = IF filePath \in cache
                                 THEN Append(@, [name |-> filePath, pos |-> 0,
                                                 sample |-> <<>>])
                                 ELSE @]
    /\ UNCHANGED <<modemVars, state, cache, line, pending, at, indVars,
                   delivered, crashed, discordVars, clcc, ctl, legVars, live,
                   mach, cfg, wrk, ply>>

\* the mixer reads a sample from prompt streamer i
ReadPrompt(i) ==
    /\ i \in 1..Len(assets.cursors)
    /\ assets.cursors[i].pos < MaxSamples
    /\ assets' = [assets EXCEPT !.cursors = StreamOne(@, i)]
    /\ UNCHANGED <<controlVars, clcc, ctl, legVars, live, mach, cfg, wrk, ply>>

\* before the first use of the cache
InitAssets ==
    /\ InitControl
    /\ cache = {}
    /\ clcc = NoStatusLine
    /\ ctl = NoOperation
    /\ recv = NewALSAReceiver
    /\ prov = NewAudioProvider
    /\ strm = NewPCMStreamer
    /\ live = NewLivePath
    /\ assets = NoAssets
    /\ mach = NewMachine
    /\ cfg = NoConfig
    /\ wrk = NoCall
    /\ ply = NewPlayer

NextAssets ==
    \/ \E decoded \in CacheChoices : LoadAllAudio(decoded)
    \/ \E filePath \in PromptNames : AddPrompt(filePath)
    \/ \E i \in 1..MaxCursors : ReadPrompt(i)

SpecAssets == InitAssets /\ [][NextAssets]_vars

\* C24: AddPredecoded of a name the cache does not hold returns the
\* not-found error of the lookup and leaves the queue as it was.
C24_UnknownPromptRejected ==
    (assets.asked # "" /\ assets.asked \notin cache)
        => (assets.err = "predecoded audio not found" /\ ~assets.queued)

\* C24 witness: a prompt whose asset failed to decode was asked for after
\* another prompt had been queued.
C24_MissingPromptAsked ==
    /\ assets.asked = WelcomePrompt
    /\ WelcomePrompt \notin cache
    /\ assets.err # ""
    /\ queue # <<>>

\* C25: once the cache is initialized it holds every asset.
C25_DecodeFailureFatal ==
    assets.loaded => cache = AllPrompts

\* C26: once initialized the cache never changes, and a read from one
\* prompt streamer yields the sample at that streamer's own position and
\* leaves every other streamer where it was.
C26_IndependentCursors ==
    [][assets.loaded =>
          /\ cache' = cache
          /\ \A i \in 1..Len(assets.cursors) :
                assets'.cursors[i] # assets.cursors[i] =>
                    /\ assets'.cursors[i].sample =
                           <<assets.cursors[i].name, assets.cursors[i].pos>>
                    /\ \A j \in 1..Len(assets.cursors) :
                          j # i => assets'.cursors[j] = assets.cursors[j]]_vars

\* C26 witness: two streamers of the same prompt at different positions.
C26_TwoPlaybacksApart ==
    /\ Len(assets.cursors) >= 2
    /\ assets.cursors[1].name = assets.cursors[2].name
    /\ assets.cursors[1].pos = 2
    /\ assets.cursors[2].pos = 1

----------------------------------------------------------------------------
(* The machine and its owner: runServer waits for a signal or for an error *)
(* on Machine.Error() and then stops the machine; Machine.Wait is the      *)
(* other way to wait for its end; the signal monitor is the goroutine      *)
(* Machine.Stop waits for.                                                 *)

\* errors errorChan holds at most
MaxErrors == 1

\* the modem connection is lost: the channel of ModemManager.Closed() is
\* closed
ModemLost ==
    /\ mach.modem = "open"
    /\ mach' = [mach EXCEPT !.modem = "closed"]
    /\ UNCHANGED <<controlVars, clcc, ctl, legVars, live, assets, cfg, wrk, ply>>

\* the error callback of the SMS reception: select { case m.errorChan <-
\* err: default: }
ReceptionError ==
    /\ mach.server = "select"
    /\ mach' = [mach EXCEPT
                   !.errorChan = IF @ < MaxErrors THEN @ + 1 ELSE @]
    /\ UNCHANGED <<controlVars, clcc, ctl, legVars, live, assets, cfg, wrk, ply>>

\* SIGINT or SIGTERM is put in signalChan
SignalArrives ==
    /\ ~mach.signal
    /\ mach.server = "select"
    /\ mach' = [mach EXCEPT !.signal = TRUE]
    /\ UNCHANGED <<controlVars, clcc, ctl, legVars, live, assets, cfg, wrk, ply>>

\* runServer leaves its select: case sig := <-signalChan or
\* case err := <-m.Error()
ServerSelect(case) ==
    /\ mach.server = "select"
    /\ \/ /\ case = "signal"
          /\ mach.signal
          /\ mach' = [mach EXCEPT !.signal = FALSE, !.server = "stop",
                                  !.seen = "signal"]
       \/ /\ case = "error"
          /\ mach.errorChan > 0
          /\ mach' = [mach EXCEPT !.errorChan = @ - 1, !.server = "stop",
                                  !.seen = "error"]
    /\ UNCHANGED <<controlVars, clcc, ctl, legVars, live, assets, cfg, wrk, ply>>

\* Machine.Stop up to m.wg.Wait(): the context is cancelled and the signal
\* monitor told to stop
MachineStop ==
    /\ mach.server = "stop"
    /\ mach' = [mach EXCEPT !.ctx = "cancelled", !.server = "wg"]
    /\ UNCHANGED <<controlVars, clcc, ctl, legVars, live, assets, cfg, wrk, ply>>

\* the goroutine of SignalMonitor.Start returns: case <-s.ctx.Done(),
\* case <-s.modem.Closed() or case <-s.stopChannel
MonitorExit ==
    /\ mach.monitor = "running"
    /\ mach.modem = "closed" \/ mach.ctx = "cancelled"
    /\ mach' = [mach EXCEPT !.monitor = "stopped"]
    /\ UNCHANGED <<controlVars, clcc, ctl, legVars, live, assets, cfg, wrk, ply>>

\* m.wg.Wait() returns, Machine.Stop and runServer return
StopReturn ==
    /\ mach.server = "wg"
    /\ mach.monitor = "stopped"
    /\ mach' = [mach EXCEPT !.server = "stopped"]
    /\ UNCHANGED <<controlVars, clcc, ctl, legVars, live, assets, cfg, wrk, ply>>

\* Machine.Wait is called
MachineWait ==
    /\ mach.wait = "idle"
    /\ mach' = [mach EXCEPT !.wait = "select"]
    /\ UNCHANGED <<controlVars, clcc, ctl, legVars, live, assets, cfg, wrk, ply>>

\* the select of Machine.Wait takes one of its ready cases
WaitReturn(case) ==
    /\ mach.wait = "select"
    /\ \/ /\ case = "ctx"
          /\ mach.ctx = "cancelled"
          /\ mach' = [mach EXCEPT !.wait = "returned",
                                  !.waitErr = "context canceled"]
       \/ /\ case = "error"
          /\ mach.errorChan > 0
          /\ mach' = [mach EXCEPT !.wait = "returned", !.errorChan = @ - 1,
                                  !.waitErr = "SMS reception error"]
       \/ /\ case = "closed"
          /\ mach.modem = "closed"
          /\ mach' = [mach EXCEPT !.wait = "returned",
                                  !.waitErr = "modem connection closed"]
    /\ UNCHANGED <<controlVars, clcc, ctl, legVars, live, assets, cfg, wrk, ply>>

\* what runServer and the goroutines of the machine do on their own
MachineStep ==
    \/ \E case \in {"signal", "error"} : ServerSelect(case)
    \/ MachineStop
    \/ MonitorExit
    \/ StopReturn
    \/ \E case \in {"ctx", "error", "closed"} : WaitReturn(case)

NextMachine ==
    \/ ModemLost
    \/ ReceptionError
    \/ SignalArrives
    \/ MachineWait
    \/ MachineStep

\* runServer and the goroutines run whenever they can; the modem, the
\* signals and the callers of Wait owe nothing
SpecMachine == Init /\ [][NextMachine]_vars /\ WF_vars(MachineStep)

\* C28: once the modem connection is lost, a Machine.Wait under way
\* returns, with "modem connection closed" when the loss is all that has
\* happened, and runServer leaves its select to stop the machine.
C28_LossIsTerminal ==
    /\ [](mach.wait = "returned" /\ mach.modem = "closed"
              /\ mach.ctx = "live" /\ mach.waitErr # "SMS reception error"
          => mach.waitErr = "modem connection closed")
    /\ (mach.modem = "closed" /\ mach.wait = "select")
           ~> (mach.wait = "returned")
    /\ (mach.modem = "closed") ~> (mach.server # "select")

----------------------------------------------------------------------------
(* Config.Validate *)

\* the configurations LoadConfig may hand over: each field empty or set
\* (Timeout in seconds)
Configs ==
    [Token : {"", "test-token"},
     WebhookURL : {"", "https://discord.com/api/webhooks/test"},
     Device : {"", "/dev/ttyUSB0", "/dev/serial0"},
     Baud : {0, 9600, 115200},
     Timeout : {0, 20},
     Level : {"", "info", "debug"},
     Format : {"", "text", "json"}]

\* a Validate that looks at the token only
ValidateTokenOnly(c) ==
    IF c.Token = "" THEN "discord.token: Discord token is required" ELSE ""

\* Config.Validate: the text of the ConfigError, "" for nil
Validate(c) ==
    IF c.Token = ""
    THEN "discord.token: Discord token is required"
    ELSE IF c.WebhookURL = ""
    THEN "discord.webhook_url: Discord webhook URL is required"
    ELSE ""

\* cfg.Validate() in runServer and in the config validate command
ValidateConfig ==
    /\ ~cfg.validated
    /\ cfg' = [cfg EXCEPT !.validated = TRUE, !.err = Validate(cfg.config)]
    /\ UNCHANGED <<controlVars, clcc, ctl, legVars, live, assets, mach, wrk, ply>>

InitConfig ==
    /\ InitControl
    /\ cache = AllPrompts
    /\ clcc = NoStatusLine
    /\ ctl = NoOperation
    /\ recv = NewALSAReceiver
    /\ prov = NewAudioProvider
    /\ strm = NewPCMStreamer
    /\ live = NewLivePath
    /\ assets = [NoAssets EXCEPT !.loaded = TRUE]
    /\ mach = NewMachine
    /\ cfg \in [config : Configs, validated : {FALSE}, err : {""}]
    /\ wrk = NoCall
    /\ ply = NewPlayer

SpecConfig == InitConfig /\ [][ValidateConfig]_vars

----------------------------------------------------------------------------
(* The listening flag of call.Call *)

\* the listening operations, called one at a time while the modem rings
NextStartStop ==
    \/ Initialize(TRUE)
    \/ \E data \in ClipPayloads : ModemRing(data)
    \/ RemoteHangup
    \/ \E ok \in BOOLEAN : ModemRespond(ok)
    \/ DeliverIndication
    \/ CallHandler
    \/ IncomingNotify
    \/ IncomingPickUp
    \/ IncomingReset
    \/ IncomingSleep
    \/ IncomingPrompt
    \/ \E handler \in BOOLEAN : StartListening(handler)
    \/ \E clipOk \in BOOLEAN : StartListeningReturn(clipOk)
    \/ \E removed \in BOOLEAN : StopListening(removed)
    \/ \E handler \in BOOLEAN : SetDTMFHandler(handler)
    \/ \E removed \in BOOLEAN : DisableDTMFDetection(removed)
    \/ OperationReturn

SpecStartStop == Init /\ [][NextStartStop]_vars

\* C30: isListening becomes true only when a StartListening succeeds and
\* false only when a StopListening succeeds, and each of them does so;
\* StartListening fails when listening already or given a nil handler,
\* StopListening fails when not listening, and these failing calls leave
\* the flag, the handlers and the registered indications as they were.
C30_ListeningFollowsLastSuccess ==
    [][LET called == ctl.pc = "idle" /\ ctl' # ctl
           starts == {"StartListening", "StartListening(nil)"}
           returned == ctl.pc = "locked" /\ ctl'.pc = "idle"
           rejected == call' = call /\ inds' = inds
       IN /\ (called /\ ctl'.op \in starts /\ call.isListening) =>
                 /\ ctl'.err = "already listening for incoming calls"
                 /\ rejected
          /\ (called /\ ctl'.op = "StartListening(nil)" /\ ~call.isListening) =>
                 (ctl'.err = "handler cannot be nil" /\ rejected)
          /\ (called /\ ctl'.op = "StopListening" /\ ~call.isListening) =>
                 (ctl'.err = "not currently listening" /\ rejected)
          /\ (returned /\ ctl.op = "StartListening") =>
                 call'.isListening = (ctl'.err = "" \/ call.isListening)
          /\ (returned /\ ctl.op = "StopListening") => ~call'.isListening
          /\ call'.isListening # call.isListening =>
                 \/ ~started
                 \/ /\ returned
                    /\ ctl.op \in {"StartListening", "StopListening"}]_vars

\* C30 witness: after a StopListening, StartListening has succeeded and
\* the call manager listens again.
C30_ListeningAgain ==
    /\ ctl = [op |-> "StartListening", pc |-> "idle", err |-> ""]
    /\ call.isListening
    /\ inds = {"+CLIP"}

----------------------------------------------------------------------------
(* StartListening rejected by the modem *)

\* C31: when the modem rejects "+CLIP=1", StartListening returns "failed
\* to enable caller ID" and leaves the call manager as it was before the
\* call: not listening, no incoming handler stored, no "+CLIP" indication
\* registered.
C31_RejectedStartLeavesNothing ==
    (ctl.op = "StartListening" /\ ctl.pc = "idle"
        /\ ctl.err = "failed to enable caller ID") =>
        /\ ~call.isListening
        /\ ~call.incomingHandler
        /\ "+CLIP" \notin inds

\* C32: a successful StopListening clears both handlers whatever the modem
\* answered to its disable commands, and from then on, as long as the call
\* manager is not listening again and no operation on it is under way, no
\* indication has its callback go on to the incoming-call handler or the
\* DTMF handler.
C32_StoppedStaysSilent ==
    [][/\ (ctl.op = "StopListening" /\ ctl.pc = "locked" /\ ctl'.pc = "idle") =>
              /\ ctl'.err = ""
              /\ ~call'.incomingHandler /\ ~call'.dtmfHandler
       /\ (started /\ ~call.isListening /\ ctl.pc = "idle" /\ iPc = "idle") =>
              iPc' # "call"]_vars

----------------------------------------------------------------------------
(* The session state of the DTMF handler *)

\* C33: a digit other than '#' is never handled against a session that
\* was never initialized: whenever the DTMF handler has appended a digit,
\* m.state was a non-nil session, also when the digit arrives before any
\* incoming call was handled.
C33_DigitOnInitializedSession ==
    (cur.kind = "+RXDTMF" /\ HandledDigit \notin {"", "#"}) =>
        /\ ~state.nil
        /\ ~crashed

----------------------------------------------------------------------------
(* Closing the OpusPCMReceiver *)

\* C34: in every interleaving of OpusPCMReceiver.Close, ReceivePCMFrame and
\* PCMStreamer.Stream nothing fails: no pull takes a nil packet from the
\* closed channel and no frame is sent on the closed channel, so that
\* neither the pull nor ReceivePCMFrame panics.
C34_ReceiverCloseIsSafe ==
    strm.panic = ""

----------------------------------------------------------------------------
(* The Playback: its mixer, its prompt queue and its closing *)

NextPlayback ==
    \/ Renegotiate
    \/ SetVolume
    \/ Pause
    \/ Resume
    \/ PlaybackStop
    \/ PlaybackClose
    \/ \E filePath \in PromptNames : AddPrompt(filePath)

SpecPlayback == Init /\ [][NextPlayback]_vars

\* C35: as long as the playback is open, the prompt queue is in the mixer,
\* whatever AddStream, SetVolume, Pause, Resume and Stop calls were made,
\* so that a prompt added later is played.
C35_QueueStaysInMixer ==
    ~live.closed => live.prompts

\* C36: once the playback is closed it stays closed, IsPlaying is false,
\* AddStream fails with "playback is closed", and no call adds a streamer
\* to the mixer or a prompt to the queue.
C36_ClosedIsTerminal ==
    [][live.closed =>
          /\ live'.closed
          /\ ~IsPlaying'
          /\ live'.mixer = {} /\ live'.registered = <<>>
          /\ live'.events # live.events => live'.err = "playback is closed"
          /\ Len(queue') <= Len(queue)]_vars

----------------------------------------------------------------------------
(* The polling call manager: StartWorker starts a goroutine that asks the  *)
(* modem for its calls at every tick and tells the callback of each new    *)
(* incoming call; StopWorker cancels its context.                          *)

\* worker goroutines started in all
MaxWorkers == 2

\* polls made in all
MaxPolls == 2

\* the call indexes of a poll, and the status of one ("": no such call)
Indexes == {1, 2}
Statuses == {"", "INCOMING", "ACTIVE"}

\* a worker that tells the callback of every call it finds INCOMING
TriggeredWhileIncoming(last, current) ==
    {i \in Indexes : current[i] = "INCOMING"}

\* the calls of a poll the worker invokes the callback for: a call its
\* last poll did not hold, or held with another status, that is INCOMING
Triggered(last, current) ==
    {i \in Indexes :
        /\ current[i] # ""
        /\ IF last[i] = ""
           THEN current[i] = "INCOMING"
           ELSE last[i] # current[i] /\ current[i] = "INCOMING"}

\* call.New(a, callback)
New(callback) ==
    /\ ~wrk.made
    /\ wrk' = [wrk EXCEPT !.made = TRUE, !.callback = callback]
    /\ UNCHANGED <<controlVars, clcc, ctl, legVars, live, assets, mach, cfg, ply>>

\* Call.StartWorker: an error when the flag is set or there is no callback;
\* else a new context is stored, the flag set and the goroutine started (it
\* reaches its select with that context)
StartWorker ==
    /\ wrk.made
    /\ wrk.isWorkerRunning \/ ~wrk.callback \/ Len(wrk.workers) < MaxWorkers
    /\ wrk' = IF wrk.isWorkerRunning
              THEN [wrk EXCEPT !.err = "worker is already running"]
              ELSE IF ~wrk.callback
              THEN [wrk EXCEPT !.err = "no callback function provided"]
              ELSE LET id == Len(wrk.workers) + 1
                   IN [wrk EXCEPT
                          !.err = "",
                          !.workerCtx = id,
                          !.isWorkerRunning = TRUE,
                          !.workers = Append(@, [pc |-> "select", ctx |-> id,
                                                 last |-> [i \in Indexes |-> ""]])]
    /\ UNCHANGED <<controlVars, clcc, ctl, legVars, live, assets, mach, cfg, ply>>

\* Call.StopWorker: when the flag is set, the stored context is cancelled
\* and the flag cleared
StopWorker ==
    /\ wrk.made
    /\ wrk' = IF wrk.isWorkerRunning /\ wrk.workerCtx # 0
              THEN [wrk EXCEPT !.cancelled = @ \cup {wrk.workerCtx},
                               !.isWorkerRunning = FALSE]
              ELSE wrk
    /\ UNCHANGED <<controlVars, clcc, ctl, legVars, live, assets, mach, cfg, ply>>

\* Call.IsWorkerRunning
IsWorkerRunning == wrk.isWorkerRunning

\* worker w takes case <-ticker.C of its select: GetCallStatus fails, or
\* gives the calls current; the callback is invoked for the new incoming
\* calls, current becomes lastKnownCalls, and the loop comes back to the
\* select, which reads c.workerCtx again
WorkerTick(w, ok, current) ==
    /\ w \in 1..Len(wrk.workers)
    /\ wrk.workers[w].pc = "select"
    /\ wrk.polls < MaxPolls
    /\ LET last == wrk.workers[w].last
       IN wrk' = [wrk EXCEPT
                     !.polls = @ + 1,
                     !.tick = [w |-> w, ok |-> ok,
                               fired |-> IF ok /\ wrk.callback
                                         THEN Triggered(last, current)
                                         ELSE {}],
                     !.workers[w] = [pc |-> "select", ctx |-> wrk.workerCtx,
                                     last |-> IF ok THEN current ELSE last]]
    /\ UNCHANGED <<controlVars, clcc, ctl, legVars, live, assets, mach, cfg, ply>>

\* worker w takes case <-c.workerCtx.Done() of its select: it returns, and
\* its deferred function clears the flag
WorkerDone(w) ==
    /\ w \in 1..Len(wrk.workers)
    /\ wrk.workers[w].pc = "select"
    /\ wrk.workers[w].ctx \in wrk.cancelled
    /\ wrk' = [wrk EXCEPT !.workers[w].pc = "exited",
                          !.isWorkerRunning = FALSE]
    /\ UNCHANGED <<controlVars, clcc, ctl, legVars, live, assets, mach, cfg, ply>>

NextWorker ==
    \/ \E callback \in BOOLEAN : New(callback)
    \/ StartWorker
    \/ StopWorker
    \/ \E w \in 1..MaxWorkers, ok \in BOOLEAN, current \in [Indexes -> Statuses] :
          WorkerTick(w, ok, current)
    \/ \E w \in 1..MaxWorkers : WorkerDone(w)

SpecWorker == Init /\ [][NextWorker]_vars

\* C37: at each poll that succeeds the worker invokes the callback once
\* for every call index that is INCOMING now and was absent or in another
\* status at its last successful poll, and for no other; a poll that fails
\* invokes nothing and keeps the calls last known; and the worker goes on
\* polling after either.
C37_CallbackOncePerIncoming ==
    [][wrk'.polls # wrk.polls =>
          LET w == wrk'.tick.w
              last == wrk.workers[w].last
              now == wrk'.workers[w].last
          IN /\ wrk'.workers[w].pc = "select"
             /\ IF wrk'.tick.ok
                THEN wrk'.tick.fired =
                        {i \in Indexes : now[i] = "INCOMING" /\ last[i] # "INCOMING"}
                ELSE wrk'.tick.fired = {} /\ now = last]_vars

\* C37 witness: a poll found a call INCOMING that was INCOMING at the poll
\* before, and another that has come in since, and invoked the callback
\* for the second alone.
C37_NewCallAlone ==
    /\ wrk.polls >= 2
    /\ wrk.tick.ok
    /\ wrk.tick.fired = {2}
    /\ wrk.workers[wrk.tick.w].last = [i \in Indexes |-> "INCOMING"]

\* C38: at most one worker goroutine polls, IsWorkerRunning is true
\* exactly while one does, and StartWorker fails, changing nothing, while
\* the worker runs or when there is no callback.
C38_OneWorkerPolls ==
    [][LET polling == {w \in 1..Len(wrk'.workers) :
                          /\ wrk'.workers[w].pc = "select"
                          /\ wrk'.workers[w].ctx \notin wrk'.cancelled}
       IN /\ Cardinality(polling) <= 1
          /\ IsWorkerRunning' <=> polling # {}
          /\ (wrk'.err # "" /\ wrk'.err # wrk.err) =>
                 /\ wrk.isWorkerRunning \/ ~wrk.callback
                 /\ wrk'.workers = wrk.workers
                 /\ wrk'.isWorkerRunning = wrk.isWorkerRunning]_vars

----------------------------------------------------------------------------
(* ffmpeg.Player: PlayMP3 starts an ffmpeg process that transcodes an MP3  *)
(* asset, with a goroutine that waits for its end; Stop kills it.          *)

\* processes started in all
MaxPlays == 2

\* Player.PlayMP3: an error when a command is set, when the asset cannot be
\* read, or when the process does not start (as with a cancelled context);
\* else the command and its stdin are stored and the monitor goroutine
\* started
PlayMP3(readable) ==
    /\ ply.panic = ""
    /\ ply.cmd # 0 \/ ~readable \/ ply.cancelled \/ Len(ply.procs) < MaxPlays
    /\ ply' = IF ply.cmd # 0
              THEN [ply EXCEPT !.err = "player is already active"]
              ELSE IF ~readable
              THEN [ply EXCEPT !.err = "failed to read MP3 file"]
              ELSE IF ply.cancelled
              THEN [ply EXCEPT !.err = "failed to start ffmpeg"]
              ELSE [ply EXCEPT !.err = "",
                               !.cmd = Len(ply.procs) + 1,
                               !.stdin = TRUE,
                               !.procs = Append(@, "started")]
    /\ UNCHANGED <<controlVars, clcc, ctl, legVars, live, assets, mach, cfg, wrk>>

\* the monitor goroutine of process i calls p.cmd.Wait(): it reads p.cmd
\* without the lock, and a nil command is a nil pointer dereference
PlayerMonitorWait(i) ==
    /\ ply.panic = ""
    /\ i \in 1..Len(ply.procs)
    /\ ply.procs[i] = "started"
    /\ ply' = IF ply.cmd = 0
              THEN [ply EXCEPT !.panic = "nil pointer dereference"]
              ELSE [ply EXCEPT !.procs[i] = "running"]
    /\ UNCHANGED <<controlVars, clcc, ctl, legVars, live, assets, mach, cfg, wrk>>

\* process i ends: at the end of its input, killed by Stop or by the
\* cancelled context
PlayerProcessExit(i) ==
    /\ ply.panic = ""
    /\ i \in 1..Len(ply.procs)
    /\ ply.procs[i] = "running"
    /\ ply' = [ply EXCEPT !.procs[i] = "exited"]
    /\ UNCHANGED <<controlVars, clcc, ctl, legVars, live, assets, mach, cfg, wrk>>

\* p.cmd.Wait() of the monitor goroutine of process i returns, and its
\* deferred function clears cmd and stdin under the lock and closes p.done,
\* the channel NewPlayer made; closing a closed channel panics
PlayerMonitorDone(i) ==
    /\ ply.panic = ""
    /\ i \in 1..Len(ply.procs)
    /\ ply.procs[i] = "exited"
    /\ ply' = [ply EXCEPT
                  !.procs[i] = "reaped",
                  !.cmd = 0,
                  !.stdin = FALSE,
                  !.done = "closed",
                  !.panic = IF ply.done = "closed"
                            THEN "close of closed channel" ELSE ""]
    /\ UNCHANGED <<controlVars, clcc, ctl, legVars, live, assets, mach, cfg, wrk>>

\* Player.Stop: when a command is set, stdin is closed, the process killed
\* and the command cleared; the context is cancelled
PlayerStop ==
    /\ ply.panic = ""
    /\ ply' = [ply EXCEPT !.stdin = FALSE, !.cmd = 0, !.cancelled = TRUE]
    /\ UNCHANGED <<controlVars, clcc, ctl, legVars, live, assets, mach, cfg, wrk>>

\* Player.IsPlaying
PlayerIsPlaying == ply.cmd # 0

\* Player.Wait: <-p.done; the caller is blocked until the channel is closed
PlayerWait ==
    /\ ply.panic = ""
    /\ ply.wait = "blocked" => ply.done = "closed"
    /\ ply' = [ply EXCEPT !.wait = IF ply.done = "closed"
                                   THEN "returned" ELSE "blocked"]
    /\ UNCHANGED <<controlVars, clcc, ctl, legVars, live, assets, mach, cfg, wrk>>

NextPlayer ==
    \/ \E readable \in BOOLEAN : PlayMP3(readable)
    \/ \E i \in 1..MaxPlays : PlayerMonitorWait(i)
    \/ \E i \in 1..MaxPlays : PlayerProcessExit(i)
    \/ \E i \in 1..MaxPlays : PlayerMonitorDone(i)
    \/ PlayerStop
    \/ PlayerWait

SpecPlayer == Init /\ [][NextPlayer]_vars

\* C39: no completion of a playback fails, at most one transcoding process
\* is active, PlayMP3 is refused with "player is already active" only while
\* one is, IsPlaying is true only while one is, and once every playback has
\* completed Wait is released.
C39_OnePlaybackAtATime ==
    LET active == {i \in 1..Len(ply.procs) : ply.procs[i] \in {"started", "running"}}
    IN /\ ply.panic = ""
       /\ Cardinality(active) <= 1
       /\ PlayerIsPlaying => ply.procs[ply.cmd] # "reaped"
       /\ (ply.procs # <<>> /\ \A i \in 1..Len(ply.procs) : ply.procs[i] = "reaped")
              => ply.done = "closed"

====
